---- MODULE Spec2Model ----
(***************************************************************************)
(* Model of the HBS decipher engine (decipher.go, evb.go) and of the       *)
(* caller's failure counter (main.go).  One run of DecipherFile is a       *)
(* sequence of steps over the input file, the output file and the          *)
(* temporary intermediate file.                                            *)
(*                                                                         *)
(* The library calls of the engine are computed byte for byte as the Go    *)
(* 1.15 packages of the build compute them: crypto/aes (NewCipher,         *)
(* Encrypt, Decrypt), crypto/cipher (CryptBlocks of the CBC decrypter),    *)
(* crypto/md5 (Md5), compress/flate (Inflate), compress/bzip2 (Bunzip2),   *)
(* bufio (the reader's and the writer's 4096-byte buffers) and io.Copy.    *)
(* A read of a regular file gives all the bytes asked for that the file    *)
(* still has; a read, a write, a seek, an open or a create may fail.       *)
(***************************************************************************)
EXTENDS Integers, Sequences, FiniteSets, TLC

\* ------------------------------------------------------------------------
\* Program constants
\* ------------------------------------------------------------------------
AesKeyStrength == 256
BlockSize == 16
HeaderV2Length == 80
ITERATIONS == 1
SaltSize == 8
\* bufio's default buffer size (bufio.NewWriter / bufio.NewReader)
BufSize == 4096

\* blockSize := BlockSize * BlockSize, the chunk read by doDecipher
ChunkSize == BlockSize * BlockSize

QNAPFilePrefixV1Bytes == <<7, 95, 95, 81, 67, 83, 95, 95>>
QNAPFilePrefixV2Bytes == <<75, 202, 148, 114, 94, 131, 28, 49>>
OpenSSLPrefix == <<83, 97, 108, 116, 101, 100, 95, 95>>

\* The two error values and the other outcomes a call can have.
\*   "nil"          success
\*   "NoCipherFile" errors.Is(err, NoCipherFile)
\*   "ErrDecipher"  errors.Is(err, ErrDecipher)
\*   "Other"        an error wrapping neither
\*   "panic"        a run-time panic (nil dereference, division by zero)
ErrKinds == {"nil", "NoCipherFile", "ErrDecipher", "Other", "panic"}

\* ------------------------------------------------------------------------
\* Bounds of the model
\* ------------------------------------------------------------------------
\* plaintext lengths are drawn around every multiple of the chunk size up to
\* MaxChunks chunks
MaxChunks == 1

\* ------------------------------------------------------------------------
\* Byte and sequence helpers
\* ------------------------------------------------------------------------
Min(a, b) == IF a < b THEN a ELSE b

Take(s, n) == SubSeq(s, 1, Min(n, Len(s)))

Drop(s, n) == SubSeq(s, Min(n, Len(s)) + 1, Len(s))

\* a loop of the code: Step applied to the loop's state st until st.done,
\* n >= 1 times at most
RECURSIVE Loop(_, _, _)
Loop(Step(_), st, n) ==
    IF st.done THEN st
    ELSE IF n = 1 THEN Step(st)
    ELSE Loop(Step, Loop(Step, st, n \div 2), n - (n \div 2))

RECURSIVE BitAnd(_, _)
BitAnd(a, b) ==
    IF a = 0 \/ b = 0 THEN 0
    ELSE (a % 2) * (b % 2) + 2 * BitAnd(a \div 2, b \div 2)

\* a & b and a ^ b on bytes, as tables: AndTab[a + 1][b + 1], XorTab[a + 1][b + 1]
AndTab == <<>> \o [a \in 1..256 |-> <<>> \o [b \in 1..256 |-> BitAnd(a - 1, b - 1)]]

XorTab == <<>> \o [a \in 1..256 |-> <<>> \o [b \in 1..256 |-> a + b - 2 - 2 * AndTab[a][b]]]

Xor(a, b) == XorTab[a + 1][b + 1]

Repeat(b, n) == <<>> \o [i \in 1..n |-> b]

\* strings.Repeat(s, count)
StringsRepeat(s, count) == <<>> \o [i \in 1..(count * Len(s)) |-> s[((i - 1) % Len(s)) + 1]]

\* ------------------------------------------------------------------------
\* crypto/aes
\* ------------------------------------------------------------------------
\* the S-box and its inverse
sbox0 ==
    <<99, 124, 119, 123, 242, 107, 111, 197, 48, 1, 103, 43, 254, 215, 171, 118,
      202, 130, 201, 125, 250, 89, 71, 240, 173, 212, 162, 175, 156, 164, 114, 192,
      183, 253, 147, 38, 54, 63, 247, 204, 52, 165, 229, 241, 113, 216, 49, 21,
      4, 199, 35, 195, 24, 150, 5, 154, 7, 18, 128, 226, 235, 39, 178, 117,
      9, 131, 44, 26, 27, 110, 90, 160, 82, 59, 214, 179, 41, 227, 47, 132,
      83, 209, 0, 237, 32, 252, 177, 91, 106, 203, 190, 57, 74, 76, 88, 207,
      208, 239, 170, 251, 67, 77, 51, 133, 69, 249, 2, 127, 80, 60, 159, 168,
      81, 163, 64, 143, 146, 157, 56, 245, 188, 182, 218, 33, 16, 255, 243, 210,
      205, 12, 19, 236, 95, 151, 68, 23, 196, 167, 126, 61, 100, 93, 25, 115,
      96, 129, 79, 220, 34, 42, 144, 136, 70, 238, 184, 20, 222, 94, 11, 219,
      224, 50, 58, 10, 73, 6, 36, 92, 194, 211, 172, 98, 145, 149, 228, 121,
      231, 200, 55, 109, 141, 213, 78, 169, 108, 86, 244, 234, 101, 122, 174, 8,
      186, 120, 37, 46, 28, 166, 180, 198, 232, 221, 116, 31, 75, 189, 139, 138,
      112, 62, 181, 102, 72, 3, 246, 14, 97, 53, 87, 185, 134, 193, 29, 158,
      225, 248, 152, 17, 105, 217, 142, 148, 155, 30, 135, 233, 206, 85, 40, 223,
      140, 161, 137, 13, 191, 230, 66, 104, 65, 153, 45, 15, 176, 84, 187, 22>>

sbox1 ==
    <<82, 9, 106, 213, 48, 54, 165, 56, 191, 64, 163, 158, 129, 243, 215, 251,
      124, 227, 57, 130, 155, 47, 255, 135, 52, 142, 67, 68, 196, 222, 233, 203,
      84, 123, 148, 50, 166, 194, 35, 61, 238, 76, 149, 11, 66, 250, 195, 78,
      8, 46, 161, 102, 40, 217, 36, 178, 118, 91, 162, 73, 109, 139, 209, 37,
      114, 248, 246, 100, 134, 104, 152, 22, 212, 164, 92, 204, 93, 101, 182, 146,
      108, 112, 72, 80, 253, 237, 185, 218, 94, 21, 70, 87, 167, 141, 157, 132,
      144, 216, 171, 0, 140, 188, 211, 10, 247, 228, 88, 5, 184, 179, 69, 6,
      208, 44, 30, 143, 202, 63, 15, 2, 193, 175, 189, 3, 1, 19, 138, 107,
      58, 145, 17, 65, 79, 103, 220, 234, 151, 242, 207, 206, 240, 180, 230, 115,
      150, 172, 116, 34, 231, 173, 53, 133, 226, 249, 55, 232, 28, 117, 223, 110,
      71, 241, 26, 113, 29, 41, 197, 137, 111, 183, 98, 14, 170, 24, 190, 27,
      252, 86, 62, 75, 198, 210, 121, 32, 154, 219, 192, 254, 120, 205, 90, 244,
      31, 221, 168, 51, 136, 7, 199, 49, 177, 18, 16, 89, 39, 128, 236, 95,
      96, 81, 127, 169, 25, 181, 74, 13, 45, 229, 122, 159, 147, 201, 156, 239,
      160, 224, 59, 77, 174, 42, 245, 176, 200, 235, 187, 60, 131, 83, 153, 97,
      23, 43, 4, 126, 186, 119, 214, 38, 225, 105, 20, 99, 85, 33, 12, 125>>

\* multiplication by x in GF(2^8) modulo x^8 + x^4 + x^3 + x + 1
xtime(a) == IF a < 128 THEN 2 * a ELSE Xor(2 * a - 256, 27)

\* the multiples used by MixColumns and its inverse, as tables: Mul2[a + 1]
Mul2 == <<>> \o [a \in 1..256 |-> xtime(a - 1)]

Mul3 == <<>> \o [a \in 1..256 |-> Xor(Mul2[a], a - 1)]

Mul9 == <<>> \o [a \in 1..256 |-> Xor(Mul2[Mul2[Mul2[a] + 1] + 1], a - 1)]

Mul11 == <<>> \o [a \in 1..256 |-> Xor(Mul9[a], Mul2[a])]

Mul13 == <<>> \o [a \in 1..256 |-> Xor(Mul9[a], Mul2[Mul2[a] + 1])]

Mul14 == <<>> \o [a \in 1..256 |-> Xor(Xor(Mul2[Mul2[Mul2[a] + 1] + 1], Mul2[Mul2[a] + 1]), Mul2[a])]

\* aes.NewCipher(key), expandKeyGo: the round keys as 16 * (rounds + 1)
\* bytes; the loop adds one word, rcon is the round constant
NewCipher(key) ==
    LET nk == Len(key) \div 4
    IN  Loop(LAMBDA q :
                 LET w == q.w
                     n == Len(w)
                     i == n \div 4
                     t == IF i % nk = 0
                          THEN <<Xor(sbox0[w[n - 2] + 1], q.rcon), sbox0[w[n - 1] + 1],
                                 sbox0[w[n] + 1], sbox0[w[n - 3] + 1]>>
                          ELSE IF nk > 6 /\ i % nk = 4
                          THEN <<sbox0[w[n - 3] + 1], sbox0[w[n - 2] + 1],
                                 sbox0[w[n - 1] + 1], sbox0[w[n] + 1]>>
                          ELSE SubSeq(w, n - 3, n)
                 IN  [w    |-> w \o [j \in 1..4 |-> Xor(w[n - 4 * nk + j], t[j])],
                      rcon |-> IF i % nk = 0 THEN xtime(q.rcon) ELSE q.rcon,
                      done |-> n + 4 = 16 * (nk + 7)],
             [w |-> key, rcon |-> 1, done |-> FALSE], 4 * (nk + 7)).w

MixColumns(s) ==
    <<>> \o [i \in 1..16 |->
        LET c == 4 * ((i - 1) \div 4)
            r == (i - 1) % 4
        IN  Xor(Xor(Mul2[s[c + r + 1] + 1], Mul3[s[c + ((r + 1) % 4) + 1] + 1]),
                Xor(s[c + ((r + 2) % 4) + 1], s[c + ((r + 3) % 4) + 1]))]

InvMixColumns(s) ==
    <<>> \o [i \in 1..16 |->
        LET c == 4 * ((i - 1) \div 4)
            r == (i - 1) % 4
        IN  Xor(Xor(Mul14[s[c + r + 1] + 1], Mul11[s[c + ((r + 1) % 4) + 1] + 1]),
                Xor(Mul13[s[c + ((r + 2) % 4) + 1] + 1], Mul9[s[c + ((r + 3) % 4) + 1] + 1]))]

\* AddRoundKey with round key r of the round keys xk
AddRoundKey(s, xk, r) == <<>> \o [i \in 1..16 |-> Xor(s[i], xk[16 * r + i])]

\* SubBytes and ShiftRows
SubShift(s) == <<>> \o [i \in 1..16 |-> sbox0[s[((i - 1 + 4 * ((i - 1) % 4)) % 16) + 1] + 1]]

\* InvShiftRows and InvSubBytes
InvShiftSub(s) == <<>> \o [i \in 1..16 |-> sbox1[s[((i - 1 + 12 * ((i - 1) % 4)) % 16) + 1] + 1]]

\* cipher.Block.Encrypt(dst, src) with the round keys xk: the 16 bytes of dst;
\* the loop does round r on the state s
Encrypt(xk, src) ==
    LET nr == (Len(xk) \div 16) - 1
        e  == Loop(LAMBDA q : [r |-> q.r + 1, done |-> q.r + 1 = nr,
                               s |-> AddRoundKey(MixColumns(SubShift(q.s)), xk, q.r)],
                   [r |-> 1, s |-> AddRoundKey(src, xk, 0), done |-> FALSE], nr)
    IN  AddRoundKey(SubShift(e.s), xk, nr)

\* cipher.Block.Decrypt(dst, src) with the round keys xk: the 16 bytes of dst
Decrypt(xk, src) ==
    LET nr == (Len(xk) \div 16) - 1
        e  == Loop(LAMBDA q : [r |-> q.r - 1, done |-> q.r = 1,
                               s |-> InvMixColumns(AddRoundKey(InvShiftSub(q.s), xk, q.r))],
                   [r |-> nr - 1, s |-> AddRoundKey(src, xk, nr), done |-> FALSE], nr)
    IN  AddRoundKey(InvShiftSub(e.s), xk, 0)

\* ------------------------------------------------------------------------
\* crypto/md5
\* ------------------------------------------------------------------------
\* a 32-bit word is kept as its two 16-bit halves <<high, low>>

And16(a, b) == 256 * AndTab[(a \div 256) + 1][(b \div 256) + 1] + AndTab[(a % 256) + 1][(b % 256) + 1]

WAnd(x, y) == <<And16(x[1], y[1]), And16(x[2], y[2])>>

WOr(x, y) == <<x[1] + y[1] - And16(x[1], y[1]), x[2] + y[2] - And16(x[2], y[2])>>

WXor(x, y) == <<x[1] + y[1] - 2 * And16(x[1], y[1]), x[2] + y[2] - 2 * And16(x[2], y[2])>>

WNot(x) == <<65535 - x[1], 65535 - x[2]>>

WAdd(x, y) == <<(x[1] + y[1] + ((x[2] + y[2]) \div 65536)) % 65536, (x[2] + y[2]) % 65536>>

\* bits.RotateLeft32(x, s), 0 < s < 32
WRotl(x, s) ==
    LET h == IF s >= 16 THEN x[2] ELSE x[1]
        l == IF s >= 16 THEN x[1] ELSE x[2]
        k == s % 16
    IN  <<((h * (2 ^ k)) % 65536) + (l \div (2 ^ (16 - k))),
          ((l * (2 ^ k)) % 65536) + (h \div (2 ^ (16 - k)))>>

\* the sine table and the shift amounts of the 64 steps
md5K ==
    <<<<55146, 42104>>, <<59591, 46934>>, <<9248, 28891>>, <<49597, 52974>>,
      <<62844, 4015>>, <<18311, 50730>>, <<43056, 17939>>, <<64838, 38145>>,
      <<27008, 39128>>, <<35652, 63407>>, <<65535, 23473>>, <<35164, 55230>>,
      <<27536, 4386>>, <<64920, 29075>>, <<42617, 17294>>, <<18868, 2081>>,
      <<63006, 9570>>, <<49216, 45888>>, <<9822, 23121>>, <<59830, 51114>>,
      <<54831, 4189>>, <<580, 5203>>, <<55457, 59009>>, <<59347, 64456>>,
      <<8673, 52710>>, <<49975, 2006>>, <<62677, 3463>>, <<17754, 5357>>,
      <<43491, 59653>>, <<64751, 41976>>, <<26479, 729>>, <<36138, 19594>>,
      <<65530, 14658>>, <<34673, 63105>>, <<28061, 24866>>, <<64997, 14348>>,
      <<42174, 59972>>, <<19422, 53161>>, <<63163, 19296>>, <<48831, 48240>>,
      <<10395, 32454>>, <<60065, 10234>>, <<54511, 12421>>, <<1160, 7429>>,
      <<55764, 53305>>, <<59099, 39397>>, <<8098, 31992>>, <<50348, 22117>>,
      <<62505, 8772>>, <<17194, 65431>>, <<43924, 9127>>, <<64659, 41017>>,
      <<25947, 22979>>, <<36620, 52370>>, <<65519, 62589>>, <<34180, 24017>>,
      <<28584, 32335>>, <<65068, 59104>>, <<41729, 17172>>, <<19976, 4513>>,
      <<63315, 32386>>, <<48442, 62005>>, <<10967, 53947>>, <<60294, 54161>>>>

md5S ==
    <<7, 12, 17, 22, 7, 12, 17, 22, 7, 12, 17, 22, 7, 12, 17, 22,
      5, 9, 14, 20, 5, 9, 14, 20, 5, 9, 14, 20, 5, 9, 14, 20,
      4, 11, 16, 23, 4, 11, 16, 23, 4, 11, 16, 23, 4, 11, 16, 23,
      6, 10, 15, 21, 6, 10, 15, 21, 6, 10, 15, 21, 6, 10, 15, 21>>

\* one of the 64 steps of blockGeneric on the 64-byte block X (16 words)
Md5Step(s, X) ==
    LET k == s.k
        f == IF k < 16 THEN WOr(WAnd(s.b, s.c), WAnd(WNot(s.b), s.d))
             ELSE IF k < 32 THEN WOr(WAnd(s.b, s.d), WAnd(s.c, WNot(s.d)))
             ELSE IF k < 48 THEN WXor(WXor(s.b, s.c), s.d)
             ELSE WXor(s.c, WOr(s.b, WNot(s.d)))
        g == IF k < 16 THEN k
             ELSE IF k < 32 THEN (5 * k + 1) % 16
             ELSE IF k < 48 THEN (3 * k + 5) % 16
             ELSE (7 * k) % 16
        t == WAdd(WAdd(s.a, f), WAdd(md5K[k + 1], X[g + 1]))
    IN  [k |-> k + 1, a |-> s.d, b |-> WAdd(s.b, WRotl(t, md5S[k + 1])), c |-> s.b, d |-> s.c,
         done |-> k = 63]

\* blockGeneric on block s.k (from 0) of the padded message p
Md5Block(s, p) ==
    LET o == 64 * s.k
        X == <<>> \o [j \in 1..16 |->
                 <<p[o + 4 * j - 1] + 256 * p[o + 4 * j], p[o + 4 * j - 3] + 256 * p[o + 4 * j - 2]>>]
        Sum(r) == [k |-> s.k + 1, a |-> WAdd(s.a, r.a), b |-> WAdd(s.b, r.b),
                   c |-> WAdd(s.c, r.c), d |-> WAdd(s.d, r.d),
                   done |-> 64 * (s.k + 1) = Len(p)]
    IN  Sum(Loop(LAMBDA q : Md5Step(q, X), [s EXCEPT !.k = 0], 64))

\* md.Reset(); md.Write(data); md.Sum(nil): the MD5 digest of data (shorter
\* than 2^13 bytes)
Md5(data) ==
    LET n  == Len(data)
        z  == (119 - (n % 64)) % 64
        p  == data \o <<128>> \o [j \in 1..z |-> 0]
              \o <<(8 * n) % 256, (8 * n) \div 256, 0, 0, 0, 0, 0, 0>>
        LittleEndian(w) == <<w[2] % 256, w[2] \div 256, w[1] % 256, w[1] \div 256>>
        Sum(r) == LittleEndian(r.a) \o LittleEndian(r.b) \o LittleEndian(r.c)
                  \o LittleEndian(r.d)
    IN  Sum(Loop(LAMBDA q : Md5Block(q, p),
                 [k |-> 0, a |-> <<26437, 8961>>, b |-> <<61389, 43913>>,
                  c |-> <<39098, 56574>>, d |-> <<4146, 21622>>, done |-> FALSE],
                 Len(p) \div 64))

\* ------------------------------------------------------------------------
\* compress/flate
\* ------------------------------------------------------------------------
\* byte k (from 0) of d, 0 past its end
ByteAt(d, k) == IF k < Len(d) THEN d[k + 1] ELSE 0

\* the n <= 16 bits of d from bit p as a number, the first bit least
\* significant, bytes taken least significant bit first
BitsLsb(d, p, n) ==
    LET k == p \div 8
        w == ByteAt(d, k) + 256 * ByteAt(d, k + 1) + 65536 * ByteAt(d, k + 2)
    IN  (w \div (2 ^ (p % 8))) % (2 ^ n)

\* bits.Reverse8, as a table: Reverse8[b + 1]
Reverse8 ==
    <<>> \o [a \in 1..256 |->
        LET b == a - 1
        IN  128 * (b % 2) + 64 * ((b \div 2) % 2) + 32 * ((b \div 4) % 2) + 16 * ((b \div 8) % 2)
            + 8 * ((b \div 16) % 2) + 4 * ((b \div 32) % 2) + 2 * ((b \div 64) % 2) + (b \div 128)]

\* the n <= 15 bits of d from bit p as a Huffman code, the first bit most
\* significant
CodeLsb(d, p, n) ==
    LET v == BitsLsb(d, p, n)
    IN  (256 * Reverse8[(v % 256) + 1] + Reverse8[(v \div 256) + 1]) \div (2 ^ (16 - n))

\* huffmanDecoder.init(lengths): lengths[i] is the code length of symbol i - 1,
\* 0 for an unused symbol.  ok is the result of init; count[n] is the number of
\* codes of n bits, first[n] the first of them, offs[n] the number of shorter
\* codes, syms the symbols in the order of their codes.
HuffInit(lengths) ==
    LET N     == Len(lengths)
        used  == {i \in 1..N : lengths[i] > 0}
        count == <<>> \o [n \in 1..15 |-> Cardinality({i \in used : lengths[i] = n})]
        max   == IF used = {} THEN 0 ELSE CHOOSE n \in 1..15 : count[n] > 0 /\ \A m \in (n + 1)..15 : count[m] = 0
        min   == IF used = {} THEN 0 ELSE CHOOSE n \in 1..15 : count[n] > 0 /\ \A m \in 1..(n - 1) : count[m] = 0
        first == Loop(LAMBDA q : [f |-> Append(q.f, 2 * (q.f[Len(q.f)] + count[Len(q.f)])),
                                  done |-> Len(q.f) = 14],
                      [f |-> <<0>>, done |-> FALSE], 14).f
        offs  == <<>> \o [n \in 1..15 |-> Cardinality({i \in used : lengths[i] < n})]
        code  == IF max = 0 THEN 0 ELSE first[max] + count[max]
        place == <<>> \o [i \in 1..N |->
                    IF lengths[i] = 0 THEN 0
                    ELSE offs[lengths[i]] + Cardinality({j \in 1..(i - 1) : lengths[j] = lengths[i]}) + 1]
    IN  [ok    |-> max = 0 \/ code = 2 ^ max \/ (code = 1 /\ max = 1),
         min   |-> min,
         count |-> count,
         first |-> first,
         offs  |-> offs,
         syms  |-> <<>> \o [k \in 1..Cardinality(used) |-> (CHOOSE i \in used : place[i] = k) - 1]]

\* decompressor.huffSym(h) at bit p of d: ok = FALSE is an error (the input
\* ends inside the code or before h.min bits, or no code matches)
HuffSym(h, d, p) ==
    LET avail == 8 * Len(d) - p
        Fits(n) == LET c == CodeLsb(d, p, n)
                   IN  h.count[n] > 0 /\ c >= h.first[n] /\ c < h.first[n] + h.count[n]
        Sym(n) == [ok |-> TRUE, sym |-> h.syms[h.offs[n] + CodeLsb(d, p, n) - h.first[n] + 1],
                   pos |-> p + n]
        First(fits) == IF avail < h.min \/ fits = {} THEN [ok |-> FALSE, sym |-> 0, pos |-> p]
                       ELSE Sym(CHOOSE n \in fits : \A m \in fits : n <= m)
    IN  First({n \in 1..Min(15, avail) : Fits(n)})

\* fixedHuffmanDecoderInit: the fixed literal/length code
FixedHuff ==
    HuffInit(<<>> \o [i \in 1..288 |-> IF i <= 144 THEN 8 ELSE IF i <= 256 THEN 9
                                       ELSE IF i <= 280 THEN 7 ELSE 8])

codeOrder == <<16, 17, 18, 0, 8, 7, 9, 6, 10, 5, 11, 4, 12, 3, 13, 2, 14, 1, 15>>

\* the decompressor stopped with the error f.err
FlateErr(st) == [st EXCEPT !.err = TRUE, !.done = TRUE]

\* decompressor.nextBlock: the block header and, for a stored block,
\* dataBlock and copyData; for a dynamic block, readHuffman up to the code
\* length code
FlateNextBlock(d, st) ==
    IF st.pos + 3 > 8 * Len(d) THEN FlateErr(st)
    ELSE LET final == BitsLsb(d, st.pos, 1) = 1
             typ   == BitsLsb(d, st.pos + 1, 2)
             p     == st.pos + 3
         IN  IF typ = 0
             THEN LET b == (p + 7) \div 8
                  IN  IF b + 4 > Len(d) THEN FlateErr(st)
                      ELSE LET n  == d[b + 1] + 256 * d[b + 2]
                               nn == d[b + 3] + 256 * d[b + 4]
                           IN  IF nn # 65535 - n THEN FlateErr(st)
                               ELSE IF b + 4 + n > Len(d)
                               THEN FlateErr([st EXCEPT !.out = @ \o SubSeq(d, b + 5, Len(d))])
                               ELSE [st EXCEPT !.out = @ \o SubSeq(d, b + 5, b + 4 + n),
                                               !.pos = 8 * (b + 4 + n),
                                               !.done = final]
             ELSE IF typ = 1
             THEN [st EXCEPT !.pos = p, !.final = final, !.phase = "sym",
                             !.hl = FixedHuff, !.fixed = TRUE]
             ELSE IF typ = 2
             THEN IF p + 14 > 8 * Len(d) THEN FlateErr(st)
                  ELSE LET nlit  == BitsLsb(d, p, 5) + 257
                           ndist == BitsLsb(d, p + 5, 5) + 1
                           nclen == BitsLsb(d, p + 10, 4) + 4
                           q     == p + 14
                           cb    == <<>> \o [s \in 1..19 |->
                                       LET i == CHOOSE i \in 1..19 : codeOrder[i] = s - 1
                                       IN  IF i <= nclen /\ q + 3 * nclen <= 8 * Len(d)
                                           THEN BitsLsb(d, q + 3 * (i - 1), 3) ELSE 0]
                           Lens(h1) ==
                               IF nlit > 286 \/ ndist > 30 \/ q + 3 * nclen > 8 * Len(d) \/ ~h1.ok
                               THEN FlateErr(st)
                               ELSE [st EXCEPT !.pos = q + 3 * nclen, !.final = final,
                                               !.phase = "lens", !.h1 = h1, !.bits = <<>>,
                                               !.nlit = nlit, !.ndist = ndist, !.fixed = FALSE]
                       IN  Lens(HuffInit(cb))
             ELSE FlateErr(st)

\* readHuffman, the loop over the code lengths: one symbol of the code length
\* code; after the last, the literal/length and the distance decoders
FlateReadLengths(d, st) ==
    LET n == st.nlit + st.ndist
        i == Len(st.bits)
        Decoders(hl, hd) ==
            IF ~hl.ok \/ ~hd.ok THEN FlateErr(st)
            ELSE [st EXCEPT !.phase = "sym",
                            !.hl = [hl EXCEPT !.min = IF @ < st.bits[257] THEN st.bits[257] ELSE @],
                            !.hd = hd]
        Length(s) ==
            IF ~s.ok THEN FlateErr(st)
            ELSE IF s.sym < 16
            THEN [st EXCEPT !.pos = s.pos, !.bits = Append(@, s.sym)]
            ELSE LET nb  == IF s.sym = 16 THEN 2 ELSE IF s.sym = 17 THEN 3 ELSE 7
                     low == IF s.sym = 18 THEN 11 ELSE 3
                 IN  IF (s.sym = 16 /\ i = 0) \/ s.pos + nb > 8 * Len(d) THEN FlateErr(st)
                     ELSE LET rep == low + BitsLsb(d, s.pos, nb)
                              b   == IF s.sym = 16 THEN st.bits[i] ELSE 0
                          IN  IF i + rep > n THEN FlateErr(st)
                              ELSE [st EXCEPT !.pos = s.pos + nb,
                                              !.bits = @ \o [j \in 1..rep |-> b]]
    IN  IF i = n
        THEN Decoders(HuffInit(SubSeq(st.bits, 1, st.nlit)),
                      HuffInit(SubSeq(st.bits, st.nlit + 1, n)))
        ELSE Length(HuffSym(st.h1, d, st.pos))

\* huffmanBlock, one turn of its loop: a literal, the end of the block, or a
\* length and distance pair copied from the output so far
FlateHuffmanBlock(d, st) ==
    LET Copy(length, ds) ==
            IF ~ds.ok \/ ds.sym >= 30 THEN FlateErr(st)
            ELSE LET nb == IF ds.sym < 4 THEN 0 ELSE (ds.sym - 2) \div 2
                 IN  IF ds.pos + nb > 8 * Len(d) THEN FlateErr(st)
                     ELSE LET dist == IF ds.sym < 4 THEN ds.sym + 1
                                      ELSE (2 ^ (nb + 1)) + 1 + (ds.sym % 2) * (2 ^ nb)
                                           + BitsLsb(d, ds.pos, nb)
                              L    == Len(st.out)
                          IN  IF dist > Min(L, 32768) THEN FlateErr(st)
                              ELSE [st EXCEPT
                                      !.pos = ds.pos + nb,
                                      !.out = @ \o [j \in 1..length |->
                                                st.out[L - dist + ((j - 1) % dist) + 1]]]
        Dist(p) ==
            IF st.fixed
            THEN IF p + 5 > 8 * Len(d) THEN [ok |-> FALSE, sym |-> 0, pos |-> p]
                 ELSE [ok |-> TRUE, sym |-> CodeLsb(d, p, 5), pos |-> p + 5]
            ELSE HuffSym(st.hd, d, p)
        Sym(s) ==
            LET v == s.sym
            IN  IF ~s.ok THEN FlateErr(st)
                ELSE IF v < 256 THEN [st EXCEPT !.pos = s.pos, !.out = Append(@, v)]
                ELSE IF v = 256 THEN [st EXCEPT !.pos = s.pos, !.phase = "block", !.done = st.final]
                ELSE IF v >= 286 THEN FlateErr(st)
                ELSE LET n    == IF v < 265 \/ v = 285 THEN 0 ELSE (v - 261) \div 4
                         base == IF v < 265 THEN v - 254
                                 ELSE IF v = 285 THEN 258
                                 ELSE (v - (265 + 4 * (n - 1))) * (2 ^ n) + (2 ^ (n + 2)) + 3
                     IN  IF s.pos + n > 8 * Len(d) THEN FlateErr(st)
                         ELSE Copy(base + BitsLsb(d, s.pos, n), Dist(s.pos + n))
    IN  Sym(HuffSym(st.hl, d, st.pos))

\* io.Copy(dst, flate.NewReader(src)) on the content s of src: the bytes that
\* reach dst and whether the copy ended without error.  The bytes decoded
\* before an error are delivered; bytes after the final block are not read.
Inflate(s) ==
    LET Result(r) == [ok |-> r.done /\ ~r.err, out |-> r.out]
    IN  Result(Loop(LAMBDA st : IF st.phase = "block" THEN FlateNextBlock(s, st)
                                ELSE IF st.phase = "lens" THEN FlateReadLengths(s, st)
                                ELSE FlateHuffmanBlock(s, st),
                    [pos |-> 0, out |-> <<>>, err |-> FALSE, done |-> FALSE, final |-> FALSE,
                     phase |-> "block", fixed |-> FALSE, h1 |-> <<>>, hl |-> <<>>, hd |-> <<>>,
                     bits |-> <<>>, nlit |-> 0, ndist |-> 0],
                    16 * Len(s) + 16))

\* ------------------------------------------------------------------------
\* compress/bzip2
\* ------------------------------------------------------------------------
\* bitReader.ReadBits64(n) at bit p of d, n <= 24: past the end of d it
\* returns 0, consumes nothing and sets the reader's error
ReadBits(d, p, n) ==
    IF p + n > 8 * Len(d) THEN [v |-> 0, pos |-> p, err |-> TRUE]
    ELSE LET k == p \div 8
             o == p % 8
             v == IF o + n <= 24
                  THEN ((65536 * ByteAt(d, k) + 256 * ByteAt(d, k + 1) + ByteAt(d, k + 2))
                        \div (2 ^ (24 - o - n))) % (2 ^ n)
                  ELSE (16777216 * (ByteAt(d, k) % (2 ^ (8 - o))) + 65536 * ByteAt(d, k + 1)
                        + 256 * ByteAt(d, k + 2) + ByteAt(d, k + 3)) \div (2 ^ (32 - o - n))
         IN  [v |-> v, pos |-> p + n, err |-> FALSE]

\* bitReader.ReadBits64(8 * n) as n bytes, the most significant first
ReadBytes(d, p, n) ==
    IF p + 8 * n > 8 * Len(d) THEN [v |-> <<>> \o [i \in 1..n |-> 0], pos |-> p, err |-> TRUE]
    ELSE [v |-> <<>> \o [i \in 1..n |-> ReadBits(d, p + 8 * (i - 1), 8).v],
          pos |-> p + 8 * n, err |-> FALSE]

bzip2BlockMagic == <<49, 65, 89, 38, 83, 89>>
bzip2FinalMagic == <<23, 114, 69, 56, 80, 144>>

\* a 32-bit word, as four bytes, shifted left by one bit with bit `low' shifted in
Shl1(w, low) == <<((2 * w[1]) % 256) + (w[2] \div 128), ((2 * w[2]) % 256) + (w[3] \div 128),
                  ((2 * w[3]) % 256) + (w[4] \div 128), ((2 * w[4]) % 256) + low>>
Xor4(a, b) == <<Xor(a[1], b[1]), Xor(a[2], b[2]), Xor(a[3], b[3]), Xor(a[4], b[4])>>

\* crctab, the table of the CRC with polynomial 0x04c11db7, high bit first
crctab ==
    <<>> \o [i \in 1..256 |->
        Loop(LAMBDA q : [j |-> q.j + 1, done |-> q.j = 7,
                         c |-> IF q.c[1] >= 128 THEN Xor4(Shl1(q.c, 0), <<4, 193, 29, 183>>)
                               ELSE Shl1(q.c, 0)],
             [j |-> 0, c |-> <<i - 1, 0, 0, 0>>, done |-> FALSE], 8).c]

\* updateCRC(val, b)
UpdateCRC(val, b) ==
    IF b = <<>> THEN val
    ELSE LET Step(q, t) == [i |-> q.i + 1, done |-> q.i + 1 = Len(b),
                            crc |-> <<Xor(q.crc[2], t[1]), Xor(q.crc[3], t[2]),
                                      Xor(q.crc[4], t[3]), t[4]>>]
         IN  Xor4(Loop(LAMBDA q : Step(q, crctab[Xor(q.crc[1], b[q.i + 1]) + 1]),
                       [i |-> 0, crc |-> Xor4(val, <<255, 255, 255, 255>>), done |-> FALSE],
                       Len(b)).crc,
                  <<255, 255, 255, 255>>)

\* moveToFrontDecoder.Decode(n) on the list m: the list after the move
MtfDecode(m, n) == <<m[n + 1]>> \o SubSeq(m, 1, n) \o SubSeq(m, n + 2, Len(m))

\* newHuffmanTree(lengths), the codes: the set of <<code, value>>, the codes
\* kept as 20-bit numbers (Go keeps them at the top of a uint32 and no code is
\* longer than 20 bits); assigned from the longest code upwards, wrapping.
\* above[22 - l] is the sum of the increments of the codes longer than l - 1.
HuffmanCodes(lengths) ==
    LET N     == Len(lengths)
        above == Loop(LAMBDA q : [a |-> Append(q.a, q.a[Len(q.a)]
                                          + Cardinality({i \in 1..N : lengths[i] = 21 - Len(q.a)})
                                            * (2 ^ (Len(q.a) - 1))),
                                  done |-> Len(q.a) = 20],
                      [a |-> <<0>>, done |-> FALSE], 20).a
    IN  {<<(above[21 - lengths[i]]
            + Cardinality({j \in (i + 1)..N : lengths[j] = lengths[i]}) * (2 ^ (20 - lengths[i])))
           % (2 ^ 20), i - 1>> : i \in 1..N}

\* the codes of S whose bit at the level is clear: the left side in buildHuffmanNode
LeftCodes(S, level) == {c \in S : (c[1] \div (2 ^ (19 - level))) % 2 = 0}

\* newHuffmanTree(lengths): the codes and whether buildHuffmanNode returns no
\* error.  It returns one exactly when two symbols have the same code: such
\* symbols stay on one side at every level down to the last, where
\* buildHuffmanNode gives up; different codes are parted at the first bit in
\* which they differ.
NewHuffmanTree(lengths) ==
    LET S == HuffmanCodes(lengths)
    IN  [codes |-> S, ok |-> \A c, e \in S : c[1] = e[1] => c = e]

\* huffmanTree.Decode(br) in the tree built of the codes S: at a node where
\* both sides hold codes a bit is read, 1 takes the left side, 0 the right
\* side; a level where one side is empty has no node
HuffmanDecode(S, d, p, e) ==
    LET Side(q, b, side) == [S |-> side, level |-> q.level + 1, pos |-> b.pos,
                             err |-> q.err \/ b.err, done |-> Cardinality(side) = 1]
        Bit(q, L, R, b) == Side(q, b, IF b.v = 1 THEN L ELSE R)
        Node(q, L, R) == IF L = {} \/ R = {} THEN [q EXCEPT !.level = @ + 1]
                         ELSE Bit(q, L, R, ReadBits(d, q.pos, 1))
        Level(q, L) == Node(q, L, q.S \ L)
        Result(r) == [v |-> (CHOOSE c \in r.S : TRUE)[2], pos |-> r.pos, err |-> r.err]
    IN  Result(Loop(LAMBDA q : Level(q, LeftCodes(q.S, q.level)),
                    [S |-> S, level |-> 0, pos |-> p, err |-> e, done |-> FALSE], 20))

\* inverseBWT and readFromBlock: the bytes of the block tt with origin origPtr
\* after the inverse Burrows-Wheeler transform and the run-length decoding
BlockBytes(tt, origPtr) ==
    LET N   == Len(tt)
        at  == <<>> \o [i \in 1..N |->
                  Cardinality({j \in 1..N : tt[j] < tt[i] \/ (tt[j] = tt[i] /\ j < i)})]
        Walk(nxt) == Loop(LAMBDA q : [tPos |-> nxt[q.tPos + 1], b |-> Append(q.b, tt[q.tPos + 1]),
                                      done |-> Len(q.b) + 1 = N],
                          [tPos |-> nxt[origPtr + 1], b |-> <<>>, done |-> FALSE], N).b
        Byte(q, b) == IF q.byteRepeats = 3
                      THEN [i |-> q.i + 1, byteRepeats |-> 0, done |-> q.i + 1 = N,
                            lastByte |-> IF b > 0 THEN -1 ELSE q.lastByte,
                            out |-> q.out \o [j \in 1..b |-> q.lastByte]]
                      ELSE [i |-> q.i + 1, done |-> q.i + 1 = N,
                            byteRepeats |-> IF q.lastByte = b THEN q.byteRepeats + 1 ELSE 0,
                            lastByte |-> b, out |-> Append(q.out, b)]
        Expand(pre) == Loop(LAMBDA q : Byte(q, pre[q.i + 1]),
                           [i |-> 0, byteRepeats |-> 0, lastByte |-> -1, out |-> <<>>,
                            done |-> FALSE], N).out
    IN  Expand(Walk(<<>> \o [k \in 1..N |-> (CHOOSE i \in 1..N : at[i] = k - 1) - 1]))

\* the reader stopped with an error
Bz2Fail(st) == [st EXCEPT !.fail = TRUE, !.done = TRUE]

\* reader.setup(false): the 'h' and the level that follow "BZ"
Bz2Setup(d, st) ==
    LET Level(t, level) ==
            IF t.v # 104 \/ level.v < 49 \/ level.v > 57 THEN Bz2Fail(st)
            ELSE [st EXCEPT !.pos = level.pos, !.err = @ \/ t.err \/ level.err,
                            !.fileCRC = <<0, 0, 0, 0>>, !.blockSize = 100000 * (level.v - 48)]
        H(t) == Level(t, ReadBits(d, t.pos, 8))
    IN  H(ReadBits(d, st.pos, 8))

\* reader.readBlock up to the selectors
Bz2BlockHeader(d, st, p) ==
    LET Block(want, rand, orig, bitmap, ranges, got, present, nt, nsel) ==
            IF rand.v # 0 \/ present = {} \/ nt.v < 2 \/ nt.v > 6 THEN Bz2Fail(st)
            ELSE [st EXCEPT !.pos = nsel.pos,
                            !.err = @ \/ want.err \/ rand.err \/ orig.err \/ bitmap.err
                                      \/ got < Cardinality(ranges) \/ nt.err \/ nsel.err,
                            !.want = want.v, !.blockCRC = <<0, 0, 0, 0>>,
                            !.fileCRC = Xor4(Shl1(@, @[1] \div 128), want.v),
                            !.origPtr = orig.v,
                            !.symbols = <<>> \o [k \in 1..Cardinality(present) |->
                                CHOOSE x \in present : Cardinality({y \in present : y < x}) = k - 1],
                            !.nt = nt.v, !.nsel = nsel.v,
                            !.phase = "sel", !.sel = <<>>, !.c = 0,
                            !.mtft = <<>> \o [i \in 1..nt.v |-> i - 1]]
        Trees(want, rand, orig, bitmap, ranges, got, present, nt) ==
            Block(want, rand, orig, bitmap, ranges, got, present, nt, ReadBits(d, nt.pos, 15))
        Present(want, rand, orig, bitmap, ranges, got, rbits) ==
            Trees(want, rand, orig, bitmap, ranges, got,
                  {x \in 0..255 : /\ (x \div 16) \in ranges
                                  /\ (rbits[x \div 16] \div (2 ^ (15 - (x % 16)))) % 2 = 1},
                  ReadBits(d, bitmap.pos + 16 * got, 3))
        Used(want, rand, orig, bitmap, ranges, got) ==
            Present(want, rand, orig, bitmap, ranges, got,
                    [r \in ranges |->
                       LET k == Cardinality({x \in ranges : x < r})
                       IN  IF k < got THEN ReadBits(d, bitmap.pos + 16 * k, 16).v ELSE 0])
        Ranges(want, rand, orig, bitmap, ranges) ==
            Used(want, rand, orig, bitmap, ranges,
                 Min(Cardinality(ranges), (8 * Len(d) - bitmap.pos) \div 16))
        Bitmap(want, rand, orig, bitmap) ==
            Ranges(want, rand, orig, bitmap,
                   {r \in 0..15 : (bitmap.v \div (2 ^ (15 - r))) % 2 = 1})
        Orig(want, rand, orig) == Bitmap(want, rand, orig, ReadBits(d, orig.pos, 16))
        Rand(want, rand) == Orig(want, rand, ReadBits(d, rand.pos, 24))
        Want(want) == Rand(want, ReadBits(d, want.pos, 1))
    IN  Want(ReadBytes(d, p, 4))

\* reader.read between two blocks: the comparison of the block CRC, the magic of
\* the next block or of the end of the stream, the file CRC and a
\* concatenated stream
Bz2Next(d, st) ==
    LET End(want, b) ==
            IF want.err \/ st.err \/ st.fileCRC # want.v THEN Bz2Fail(st)
            ELSE IF b >= Len(d) THEN [st EXCEPT !.eof = TRUE, !.done = TRUE]
            ELSE IF b + 1 >= Len(d) \/ d[b + 1] # 66 \/ d[b + 2] # 90 THEN Bz2Fail(st)
            ELSE Bz2Setup(d, [st EXCEPT !.pos = 8 * (b + 2)])
        Final(want) == End(want, (want.pos + 7) \div 8)
        Magic(m) ==
            IF m.v = bzip2BlockMagic THEN Bz2BlockHeader(d, st, m.pos)
            ELSE IF m.v = bzip2FinalMagic THEN Final(ReadBytes(d, m.pos, 4))
            ELSE Bz2Fail(st)
    IN  IF st.blockCRC # st.want THEN Bz2Fail(st)
        ELSE Magic(ReadBytes(d, st.pos, 6))

\* readBlock, the loop over the tree selectors: one bit of a unary number
Bz2Selectors(d, st) ==
    LET Length(length) ==
            [st EXCEPT !.pos = length.pos, !.err = @ \/ length.err, !.phase = "len",
                       !.mtf = st.symbols, !.trees = <<>>, !.lens = <<>>, !.length = length.v]
        Inc(inc) ==
            IF inc.v = 1 THEN [st EXCEPT !.pos = inc.pos, !.c = @ + 1]
            ELSE IF st.c >= st.nt THEN Bz2Fail(st)
            ELSE [st EXCEPT !.pos = inc.pos, !.err = @ \/ inc.err, !.c = 0,
                            !.sel = Append(@, st.mtft[st.c + 1]),
                            !.mtft = MtfDecode(@, st.c)]
    IN  IF Len(st.sel) = st.nsel THEN Length(ReadBits(d, st.pos, 5))
        ELSE Inc(ReadBits(d, st.pos, 1))

\* readBlock, the loop over the code lengths: one turn, or at the end of a
\* tree newHuffmanTree and the start of the next tree or of the decoding
Bz2Lengths(d, st) ==
    LET NextTree(t, length) ==
            [st EXCEPT !.pos = length.pos, !.err = @ \/ length.err,
                       !.trees = Append(@, t.codes), !.lens = <<>>, !.length = length.v]
        Tree(t) ==
            IF ~t.ok THEN Bz2Fail(st)
            ELSE IF Len(st.trees) + 1 < st.nt THEN NextTree(t, ReadBits(d, st.pos, 5))
            ELSE IF st.nsel = 0 THEN Bz2Fail(st)
            ELSE [st EXCEPT !.trees = Append(@, t.codes), !.phase = "decode",
                            !.cur = st.sel[1] + 1, !.selIdx = 1, !.decoded = 0,
                            !.tt = <<>>, !.repeat = 0, !.power = 0]
        Delta(b1, b2) ==
            IF b1.v = 0
            THEN [st EXCEPT !.pos = b1.pos, !.err = @ \/ b1.err, !.lens = Append(@, st.length)]
            ELSE [st EXCEPT !.pos = b2.pos, !.err = @ \/ b2.err,
                            !.length = IF b2.v = 1 THEN @ - 1 ELSE @ + 1]
        Bit(b1) == Delta(b1, ReadBits(d, b1.pos, 1))
    IN  IF Len(st.lens) = Len(st.symbols) + 2 THEN Tree(NewHuffmanTree(st.lens))
        ELSE IF st.length < 1 \/ st.length > 20 THEN Bz2Fail(st)
        ELSE Bit(ReadBits(d, st.pos, 1))

\* readBlock, the decoding loop: one symbol; at the end-of-block symbol the
\* block's bytes are delivered (only those of the first Read of io.Copy when
\* the input had ended early)
Bz2Decode(d, st) ==
    LET sw  == st.decoded = 50
        cur == IF sw THEN st.sel[st.selIdx + 1] + 1 ELSE st.cur
        End(s, s1, blk) ==
            IF s.err
            THEN Bz2Fail([st EXCEPT !.out = @ \o SubSeq(blk, 1, Min(Len(blk), 32768))])
            ELSE [s1 EXCEPT !.out = @ \o blk, !.phase = "next",
                            !.blockCRC = UpdateCRC(<<0, 0, 0, 0>>, blk)]
        Pending(s, s1, tt) ==
            IF s.v = Len(st.symbols) + 1
            THEN IF st.origPtr >= Len(tt) THEN Bz2Fail(st)
                 ELSE End(s, s1, BlockBytes(tt, st.origPtr))
            ELSE IF Len(tt) >= st.blockSize THEN Bz2Fail(st)
            ELSE [s1 EXCEPT !.tt = Append(tt, st.mtf[s.v]), !.repeat = 0,
                            !.mtf = MtfDecode(@, s.v - 1)]
        Sym(s, s1) ==
            IF s.v < 2
            THEN LET power  == IF st.repeat = 0 THEN 1 ELSE st.power
                     repeat == st.repeat + power * (2 ^ s.v)
                 IN  IF repeat > 2 * 1024 * 1024 THEN Bz2Fail(st)
                     ELSE [s1 EXCEPT !.repeat = repeat, !.power = 2 * power]
            ELSE IF st.repeat > st.blockSize - Len(st.tt) THEN Bz2Fail(st)
            ELSE Pending(s, s1, st.tt \o [i \in 1..st.repeat |-> st.mtf[1]])
        Decoded(s) ==
            Sym(s, [st EXCEPT !.pos = s.pos, !.err = s.err, !.cur = cur,
                              !.selIdx = IF sw THEN @ + 1 ELSE @,
                              !.decoded = IF sw THEN 1 ELSE @ + 1])
    IN  IF st.decoded = 50 /\ st.selIdx >= st.nsel THEN Bz2Fail(st)
        ELSE Decoded(HuffmanDecode(st.trees[cur], d, st.pos, st.err))

\* io.Copy(dst, bzip2.NewReader(src)) on the content s of src: the bytes that
\* reach dst and whether the copy ended without error
Bunzip2(s) ==
    LET Reader(magic) ==
            [pos |-> magic.pos, err |-> magic.err, fail |-> FALSE, eof |-> FALSE, done |-> FALSE,
             out |-> <<>>, fileCRC |-> <<0, 0, 0, 0>>, blockCRC |-> <<0, 0, 0, 0>>,
             want |-> <<0, 0, 0, 0>>, blockSize |-> 0, phase |-> "next",
             origPtr |-> 0, symbols |-> <<>>, nt |-> 0, nsel |-> 0, sel |-> <<>>, c |-> 0,
             mtft |-> <<>>, mtf |-> <<>>, trees |-> <<>>, lens |-> <<>>, length |-> 0,
             cur |-> 0, selIdx |-> 0, decoded |-> 0, tt |-> <<>>, repeat |-> 0, power |-> 0]
        Setup(magic, init) == IF magic.v # 16986 THEN Bz2Fail(init) ELSE Bz2Setup(s, init)
        Start(magic) == Setup(magic, Reader(magic))
        Checked(start) == IF start.err THEN Bz2Fail(start) ELSE start
        Read(step(_), start) == Loop(step, Loop(step, start, 8 * Len(s) + 8), 2 ^ 20)
        Result(r) == [ok |-> r.eof /\ ~r.fail, out |-> r.out]
    IN  Result(Read(LAMBDA st : IF st.phase = "next" THEN Bz2Next(s, st)
                                ELSE IF st.phase = "sel" THEN Bz2Selectors(s, st)
                                ELSE IF st.phase = "len" THEN Bz2Lengths(s, st)
                                ELSE Bz2Decode(s, st),
                    Checked(Start(ReadBits(s, 0, 16)))))

\* ------------------------------------------------------------------------
\* crypto/cipher
\* ------------------------------------------------------------------------
\* ecb.CryptBlocks(dst, src) of cipher.NewCBCDecrypter(block, iv): src is a
\* whole number of blocks; each block is decrypted with block.Decrypt and
\* xored with the previous ciphertext block, the first one with iv
CryptBlocks(block, iv, src) ==
    LET dec == <<>> \o [b \in 1..(Len(src) \div BlockSize) |->
                   Decrypt(block, SubSeq(src, BlockSize * (b - 1) + 1, BlockSize * b))]
    IN  <<>> \o [k \in 1..Len(src) |->
            LET b == ((k - 1) \div BlockSize) + 1
                o == ((k - 1) % BlockSize) + 1
            IN  Xor(dec[b][o], IF b = 1 THEN iv[o] ELSE src[k - BlockSize])]

\* the chaining value the decrypter keeps after CryptBlocks(dst, src)
CBCNextIV(iv, src) ==
    IF Len(src) < BlockSize THEN iv ELSE SubSeq(src, Len(src) - BlockSize + 1, Len(src))

\* chained-block encryption of the whole blocks of pt with block.Encrypt;
\* used only to build input files
CBCEncrypt(block, iv, pt) ==
    IF Len(pt) < BlockSize THEN <<>>
    ELSE Loop(LAMBDA q :
                  LET k    == Len(q.c)
                      prev == IF k = 0 THEN iv ELSE SubSeq(q.c, k - BlockSize + 1, k)
                      x    == <<>> \o [i \in 1..BlockSize |-> Xor(pt[k + i], prev[i])]
                  IN  [c |-> q.c \o Encrypt(block, x),
                       done |-> k + 2 * BlockSize > Len(pt)],
              [c |-> <<>>, done |-> FALSE], Len(pt) \div BlockSize).c

\* ------------------------------------------------------------------------
\* Key derivation
\* ------------------------------------------------------------------------
\* EVPBytesToKey(keyLen, ivLen, md, salt, data, count) for keyLen a multiple
\* of the digest size: every turn of the outer loop digests (the previous
\* digest,) data and salt[:8], re-digests count - 1 times and appends the
\* digest to the key and then to the iv; result[0] is the key, result[1] the
\* iv
EVPBytesToKey(keyLen, ivLen, salt, data, count) ==
    LET Rounds(first) == IF count > 1
                         THEN Loop(LAMBDA h : [md |-> Md5(h.md), i |-> h.i + 1,
                                               done |-> h.i + 1 = count],
                                   [md |-> first, i |-> 1, done |-> FALSE],
                                   count).md
                         ELSE first
        Turn(q, mdBuf) == [acc |-> q.acc \o mdBuf, mdBuf |-> mdBuf, addmd |-> q.addmd + 1,
                           done |-> Len(q.acc) + Len(mdBuf) >= keyLen + ivLen]
        Result(acc) == <<SubSeq(acc, 1, keyLen), SubSeq(acc, keyLen + 1, keyLen + ivLen)>>
    IN  Result(Loop(LAMBDA q : Turn(q, Rounds(Md5((IF q.addmd > 0 THEN q.mdBuf ELSE <<>>)
                                                  \o data \o Take(salt, 8)))),
                    [acc |-> <<>>, mdBuf |-> <<>>, addmd |-> 0, done |-> FALSE],
                    ((keyLen + ivLen) \div 16) + 1).acc)

\* passwordFinal := []byte(strings.Repeat(*password, iter)[0:32]) with
\* iter := 1 + 32/len(*password); the password is not empty
StretchKey(pw) == SubSeq(StringsRepeat(pw, 1 + (32 \div Len(pw))), 1, 32)

\* binary.BigEndian.Uint64 is kept as its 8 bytes (the values do not fit the
\* model checker's integers); a byte count n < 2^24 as those 8 bytes
Uint64Bytes(n) ==
    <<0, 0, 0, 0, 0, (n \div 65536) % 256, (n \div 256) % 256, n % 256>>

\* decipherV2Header after the seek, the key stretch and the read: the 64
\* bytes at offset 16 decrypted in four independent blocks with block, then
\* ckey = out[8:40], salt = out[40:56], size = out[56:64]
V2HeaderOf(file, block) ==
    LET blocks == [i \in 0..3 |-> Decrypt(block, SubSeq(file, 17 + BlockSize * i,
                                                       16 + BlockSize * (i + 1)))]
        Header(out) == [ckey |-> SubSeq(out, 9, 40), salt |-> SubSeq(out, 41, 56),
                        size |-> SubSeq(out, 57, 64)]
    IN  Header(<<>> \o [k \in 1..64 |-> blocks[(k - 1) \div BlockSize][((k - 1) % BlockSize) + 1]])

\* PKCS5Trimming(src, blockSize): ok = FALSE is the returned error
PKCS5Trimming(src, blockSize) ==
    LET srcLen     == Len(src)
        paddingLen == src[srcLen]
    IN  IF paddingLen >= srcLen \/ paddingLen > blockSize
        THEN [ok |-> FALSE, out |-> <<>>]
        ELSE [ok |-> TRUE, out |-> SubSeq(src, 1, srcLen - paddingLen)]

\* checkCipheredFile taking the compressed flag from the first of the two
\* bytes after the magic
CheckCipheredFileFirstByte(file, readErr, optErr, k) ==
    LET none == [encryptVersion |-> -1, compressed |-> FALSE]
    IN  IF readErr THEN [ftype |-> none, pos |-> k]
        ELSE IF Len(file) < 8 THEN [ftype |-> none, pos |-> Len(file)]
        ELSE LET magic == SubSeq(file, 1, 8)
             IN  IF magic = OpenSSLPrefix
                 THEN [ftype |-> [encryptVersion |-> 0, compressed |-> FALSE], pos |-> 8]
                 ELSE IF magic = QNAPFilePrefixV1Bytes
                 THEN [ftype |-> [encryptVersion |-> 1, compressed |-> FALSE], pos |-> 8]
                 ELSE IF magic = QNAPFilePrefixV2Bytes
                 THEN IF optErr THEN [ftype |-> none, pos |-> 8 + k]
                      ELSE IF Len(file) < 10 THEN [ftype |-> none, pos |-> Len(file)]
                      ELSE [ftype |-> [encryptVersion |-> 2, compressed |-> (file[9] = 1)],
                            pos |-> 10]
                 ELSE [ftype |-> none, pos |-> 8]

\* checkCipheredFile: the fileType read from the first bytes of the file and
\* the read offset it leaves.  io.ReadFull gives an error when fewer bytes
\* than asked are left, after reading those; readErr and optErr are the read
\* of the magic and the read of the two option bytes failing after k bytes.
CheckCipheredFile(file, readErr, optErr, k) ==
    LET none == [encryptVersion |-> -1, compressed |-> FALSE]
    IN  IF readErr THEN [ftype |-> none, pos |-> k]
        ELSE IF Len(file) < 8 THEN [ftype |-> none, pos |-> Len(file)]
        ELSE LET magic == SubSeq(file, 1, 8)
             IN  IF magic = OpenSSLPrefix
                 THEN [ftype |-> [encryptVersion |-> 0, compressed |-> FALSE], pos |-> 8]
                 ELSE IF magic = QNAPFilePrefixV1Bytes
                 THEN [ftype |-> [encryptVersion |-> 1, compressed |-> FALSE], pos |-> 8]
                 ELSE IF magic = QNAPFilePrefixV2Bytes
                 THEN IF optErr THEN [ftype |-> none, pos |-> 8 + k]
                      ELSE IF Len(file) < 10 THEN [ftype |-> none, pos |-> Len(file)]
                      ELSE [ftype |-> [encryptVersion |-> 2, compressed |-> (file[10] = 1)],
                            pos |-> 10]
                 ELSE [ftype |-> none, pos |-> 8]

\* b.Flush() of a bufio.Writer with buffer buf over a file holding data: the
\* buffer is written to the file; when that write fails (fail) after k bytes,
\* those bytes are in the file, the others stay in the buffer and err is set
WriterFlush(data, buf, fail, k) ==
    IF fail THEN [data |-> data \o Take(buf, k), buf |-> Drop(buf, k), err |-> TRUE]
    ELSE [data |-> data \o buf, buf |-> <<>>, err |-> FALSE]

\* writer.Write(p) of that bufio.Writer, for Len(p) <= BufSize: when p does
\* not fit, the buffer is filled and flushed to the file, and the rest of p
\* starts the new buffer unless the flush failed
WriterWrite(data, buf, p, fail, k) ==
    IF Len(p) > BufSize - Len(buf)
    THEN LET a == BufSize - Len(buf)
             f == WriterFlush(data, buf \o Take(p, a), fail, k)
         IN  IF f.err THEN f
             ELSE [data |-> f.data, buf |-> Drop(p, a), err |-> FALSE]
    ELSE [data |-> data, buf |-> buf \o p, err |-> FALSE]

\* the byte counts a failing write of n bytes may have written
Partial(n) == {0, n \div 2}

\* ------------------------------------------------------------------------
\* Input files
\* ------------------------------------------------------------------------
\* testpassword, and a second password
PwTest == <<116, 101, 115, 116, 49, 50, 51>>

PwOther == <<97, 98, 99>>

Passwords == {PwTest, PwOther}

\* plainText of the tests, and the text "0123456789" three times
PlainText ==
    <<84, 104, 105, 115, 32, 105, 115, 32, 112, 108, 97, 105, 110, 32, 116, 101, 120,
      116, 46>>

Digits == <<>> \o [i \in 1..30 |-> 48 + ((i - 1) % 10)]

\* the content key, iv and salt the input files are made with
ContentKey == <<>> \o [i \in 1..32 |-> (i * 11 + 5) % 256]

ContentIV == <<>> \o [i \in 1..16 |-> (i * 3 + 1) % 256]

FileSalt == <<1, 2, 3, 4, 5, 6, 7, 8>>

\* the key and iv EVPBytesToKey derives for the OpenSSL files
SSLKeyAndIV == EVPBytesToKey(AesKeyStrength \div 8, 16, FileSalt, PwTest, ITERATIONS)

\* what the input files are encrypted with: the cipher of the stretched
\* PwTest (the header of a version 2 file), the cipher of the content key,
\* and the key, the iv and the cipher of the OpenSSL files
Keys ==
    LET Ciphers(kv) == [key \in {StretchKey(PwTest), ContentKey, kv[1]} |-> NewCipher(key)]
        Of(kv, c) == [head |-> c[StretchKey(PwTest)], content |-> c[ContentKey],
                      sslKey |-> kv[1], sslIV |-> kv[2], ssl |-> c[kv[1]]]
        With(kv) == Of(kv, Ciphers(kv))
    IN  With(SSLKeyAndIV)

\* a plaintext of length L that is neither a deflate nor a bzip2 stream
Pattern(L) == <<>> \o [i \in 1..L |-> IF i = 1 THEN 7 ELSE (i * 7 + 3) % 256]

\* deflate streams: "abc" as one stored block and as one block of fixed
\* Huffman codes; "a" stored then "abc"; the empty stream; a stored block cut
\* short; Digits with a match; 126 bytes in one block of dynamic Huffman codes
DeflateOne == <<1, 3, 0, 252, 255, 97, 98, 99>>

DeflateFixed == <<75, 76, 74, 6, 0>>

DeflateTwo == <<0, 1, 0, 254, 255, 97, 75, 76, 74, 6, 0>>

DeflateEmpty == <<3, 0>>

DeflateCut == <<1, 3, 0, 252, 255, 97>>

DeflateDigits == <<51, 48, 52, 50, 54, 49, 53, 51, 183, 176, 52, 192, 194, 2, 0>>

DeflateDynamic ==
    <<125, 193, 49, 1, 0, 48, 12, 3, 32, 173, 105, 58, 255, 22, 246, 112, 23, 194, 80,
      150, 48, 148, 37, 12, 101, 121, 167, 15>>

\* bzip2 streams: the empty input ("BZh9", the end-of-stream magic and a zero
\* checksum); Digits; Digits with block size 1; plainText
EmptyBz2 == <<66, 90, 104, 57, 23, 114, 69, 56, 80, 144, 0, 0, 0, 0>>

Bz2Digits ==
    <<66, 90, 104, 57, 49, 65, 89, 38, 83, 89, 49, 203, 231, 137, 0, 0, 1, 8, 0, 127,
      224, 32, 0, 34, 191, 213, 67, 9, 161, 0, 48, 198, 220, 117, 9, 82, 222, 99, 226,
      238, 72, 167, 10, 18, 6, 57, 124, 241, 32>>

Bz2Digits1 == [Bz2Digits EXCEPT ![4] = 49]

Bz2Plain ==
    <<66, 90, 104, 57, 49, 65, 89, 38, 83, 89, 1, 182, 71, 144, 0, 0, 2, 19, 128, 64,
      1, 4, 0, 34, 101, 76, 64, 32, 0, 34, 38, 212, 192, 104, 32, 26, 0, 196, 178, 216,
      34, 110, 137, 10, 154, 55, 133, 220, 145, 78, 20, 36, 0, 109, 145, 228, 0>>

\* a deflate stream followed by enough bytes to fill the writer's buffer
LongPlain == DeflateOne \o [i \in 1..(BufSize + ChunkSize - 5) |-> (i * 5) % 256]

Lengths ==
    UNION {{ChunkSize * k + r : r \in {0, 1, 15, 16, 239, 240, 255}} : k \in 0..MaxChunks}

Modes == {"pkcs", "zero", "big", "cut"}

\* the bytes that are encrypted: the plaintext and its trailing bytes, which
\* are the padding ("pkcs", "cut"), zeros or the value 17
PadLen(P) == BlockSize - (Len(P) % BlockSize)

Raw(P, mode) ==
    P \o Repeat(IF mode = "zero" THEN 0 ELSE IF mode = "big" THEN 17 ELSE PadLen(P),
                PadLen(P))

\* the ciphertext body; "cut" loses its last 8 bytes
Body(block, iv, P, mode) ==
    LET Cut(c) == IF mode = "cut" THEN Take(c, Len(c) - 8) ELSE c
    IN  Cut(CBCEncrypt(block, iv, Raw(P, mode)))

\* the four blocks of a header, each encrypted on its own
EcbEncrypt64(block, hdr) ==
    LET blocks == [i \in 0..3 |-> Encrypt(block, SubSeq(hdr, 1 + BlockSize * i,
                                                        BlockSize * (i + 1)))]
    IN  <<>> \o [j \in 1..64 |-> blocks[(j - 1) \div BlockSize][((j - 1) % BlockSize) + 1]]

\* the 80 bytes before the body of a version 2 file made with PwTest
V2Head(k, opts, size) ==
    QNAPFilePrefixV2Bytes \o opts \o Repeat(0, 6)
    \o EcbEncrypt64(k.head, QNAPFilePrefixV2Bytes \o ContentKey \o ContentIV \o size)

V2File(k, opts, size, P, mode) == V2Head(k, opts, size) \o Body(k.content, ContentIV, P, mode)

OpenSSLFile(k, P, mode) == OpenSSLPrefix \o FileSalt \o Body(k.ssl, k.sslIV, P, mode)

V1File == QNAPFilePrefixV1Bytes \o Pattern(24)

Corrupt(file, k) == [file EXCEPT ![k] = (@ + 1) % 256]

\* what is known of an input file: how it was made, its plaintext and the
\* key and iv of its body
Truth(made, P, mode, key, iv) ==
    [made |-> made, plain |-> P, mode |-> mode, ckey |-> key, civ |-> iv]

Input(file, truth) == [file |-> file, truth |-> truth]

V2Input(k, opts, n, P, mode) ==
    Input(V2File(k, opts, Uint64Bytes(n), P, mode), Truth("v2", P, mode, ContentKey, ContentIV))

OpenSSLInput(k, P, mode) ==
    Input(OpenSSLFile(k, P, mode), Truth("openssl", P, mode, k.sslKey, k.sslIV))

\* the lengths the other endings and the wrong size fields are tried on
FewLengths == {0, 15, 16}

\* deflate streams with the number of bytes they inflate to
DeflateCases ==
    {<<DeflateOne, 3>>, <<DeflateFixed, 3>>, <<DeflateTwo, 4>>, <<DeflateEmpty, 0>>,
     <<DeflateCut, 1>>, <<DeflateDigits, 30>>, <<DeflateDynamic, 126>>}

\* The input files are listed by what they are made of: a version 2 file
\* by <<option bytes, size field, plaintext, ending>>, an OpenSSL file by
\* <<plaintext, ending>>.

\* version 2 files, not compressed: every length with its size field, the
\* other endings and a wrong size field on a few lengths, the test's text
V2PlainInputs ==
    {<<<<0, 0>>, L, Pattern(L), "pkcs">> : L \in Lengths}
    \cup {<<<<0, 0>>, L, Pattern(L), mode>> : L \in FewLengths, mode \in Modes}
    \cup {<<<<0, 0>>, L + 1, Pattern(L), "pkcs">> : L \in FewLengths}
    \cup {<<<<0, 0>>, n, PlainText, "pkcs">> : n \in {19, 3}}
    \cup {<<<<0, 0>>, 8, DeflateOne, "pkcs">>}

\* version 2 files flagged compressed: the deflate streams with the right
\* and a wrong size field, whole and cut; the size of the stream itself;
\* plaintexts that are no deflate stream
V2CompressedInputs ==
    {<<<<0, 1>>, c[2] + d, c[1], mode>> :
        c \in DeflateCases, d \in {0, 1}, mode \in {"pkcs", "cut"}}
    \cup {<<<<0, 1>>, 8, DeflateOne, mode>> : mode \in Modes}
    \cup {<<<<0, 1>>, L, Pattern(L), "pkcs">> : L \in FewLengths}

\* a long compressed file, whole and cut
LongInputs == {<<<<0, 1>>, 3, LongPlain, mode>> : mode \in {"pkcs", "cut"}}

\* OpenSSL files: every length, the other endings on a few lengths, and
\* bzip2 streams: whole, two in a row, cut, with a changed checksum byte
OpenSSLInputs ==
    {<<Pattern(L), "pkcs">> : L \in Lengths}
    \cup {<<Pattern(L), mode>> : L \in FewLengths, mode \in Modes}
    \cup {<<P, "pkcs">> :
             P \in {EmptyBz2, EmptyBz2 \o EmptyBz2, Bz2Digits, Bz2Digits1, Bz2Plain,
                    Take(Bz2Digits, 30), Corrupt(Bz2Digits, 12)}}
    \cup {<<Bz2Digits, "cut">>}

\* the files both passwords and every value of the package variable are
\* tried on
V2BaseInputs == {<<<<0, 0>>, 16, Pattern(16), "pkcs">>, <<<<0, 1>>, 30, DeflateDigits, "pkcs">>}

OpenSSLBaseInputs == {<<Pattern(16), "pkcs">>, <<Bz2Plain, "pkcs">>}

\* files for format detection: other option bytes, shortened files, a
\* changed magic byte, the legacy magic
NoTruth == Truth("other", <<>>, "pkcs", ContentKey, ContentIV)

BaseV2(k) == V2File(k, <<0, 0>>, Uint64Bytes(16), Pattern(16), "pkcs")

BaseOpenSSL(k) == OpenSSLFile(k, Pattern(16), "pkcs")

DetectFiles(v2, openssl) ==
    {[v2 EXCEPT ![9] = opts[1], ![10] = opts[2]] :
        opts \in {<<1, 0>>, <<1, 1>>, <<0, 2>>, <<1, 2>>, <<0, 255>>}}
    \cup {Take(v2, n) : n \in {0, 5, 8, 9, 10, 16, 50, 79, 80}}
    \cup {Take(openssl, n) : n \in {7, 8, 12, 16}}
    \cup {Take(V1File, n) : n \in {7, 8, 32}}
    \cup {Corrupt(f, i) : f \in {v2, openssl, V1File}, i \in 1..8}

Run(in, pw, g) == [in |-> in, pw |-> pw, g |-> g]

\* the values of the package variable password of main.go (<<>>: nil, as in
\* the tests)
Globals == {<<>>} \cup Passwords

\* the runs: an input file, the Password of the request and the package
\* variable.  The files made with PwTest are run with it; the base files
\* and the detection files with every combination.
V2Runs(k) ==
    {Run(V2Input(k, x[1][1], x[1][2], x[1][3], x[1][4]), x[2], x[3]) :
        x \in ((V2PlainInputs \cup V2CompressedInputs \cup LongInputs) \X {PwTest} \X {PwTest})
              \cup (V2BaseInputs \X Passwords \X Globals)}

OpenSSLRuns(k) ==
    {Run(OpenSSLInput(k, x[1][1], x[1][2]), x[2], x[3]) :
        x \in (OpenSSLInputs \X {PwTest} \X {<<>>})
              \cup (OpenSSLBaseInputs \X Passwords \X Globals)}

DetectRuns(k) ==
    {Run(Input(f, NoTruth), pw, g) :
        f \in DetectFiles(BaseV2(k), BaseOpenSSL(k)), pw \in Passwords, g \in Globals}

RunsOf(k) == V2Runs(k) \cup OpenSSLRuns(k) \cup DetectRuns(k)

Runs == RunsOf(Keys)

\* ------------------------------------------------------------------------
\* State
\* ------------------------------------------------------------------------
VARIABLES
    param,         \* DecipherParam: CipheredFile (the content of the file named), Password
    password,      \* main.go's package variable password (*string): set = FALSE is nil
    truth,         \* how the input file was made
    pc,            \* position in DecipherFile and its caller
    cipherOpen,    \* d.cipherFile is open
    pos,           \* read offset of d.cipherFile
    buffered,      \* bytes read from d.cipherFile that doDecipher's reader still holds
    ftype,         \* d.ftype
    header,        \* d.header
    passwordFinal, \* the stretched key of decipherV2Header, once built
    block,         \* block of doDecipher: the round keys of aes.NewCipher
    cbcIV,         \* chaining value of the CBC decrypter
    plainFile,     \* the output file: exists, open, data
    tmpFile,       \* the temporary file: exists, open, data
    target,        \* the file doDecipher's writer writes to: "tmp" or "plain"
    wbuf,          \* the writer's buffer
    bytesWritten,  \* bytesWritten of doDecipher, then of its caller
    last,          \* the final partial chunk of doDecipher
    derr,          \* the error doDecipher returned ("none": not returned yet)
    decomp,        \* the decompression: run, ok (no error), n (bytes written)
    err,           \* err of doDecipherV2
    result,        \* what DecipherFile returned ("running": not returned yet)
    failures,      \* main.go's failures counter
    faults         \* the calls that were made to fail

vars == <<param, password, truth, pc, cipherOpen, pos, buffered, ftype, header,
          passwordFinal, block, cbcIV, plainFile, tmpFile, target, wbuf, bytesWritten,
          last, derr, decomp, err, result, failures, faults>>

NoFile == [exists |-> FALSE, open |-> FALSE, data |-> <<>>, created |-> FALSE]

NoLast == [seen |-> FALSE, n |-> 0, p |-> 0, ok |-> FALSE, decrypted |-> <<>>,
           emitted |-> <<>>]

Init ==
    /\ \E r \in Runs :
        /\ param = [CipheredFile |-> r.in.file, Password |-> r.pw]
        /\ password = [set |-> r.g # <<>>, val |-> r.g]
        /\ truth = r.in.truth
    /\ pc = "open"
    /\ cipherOpen = FALSE
    /\ pos = 0
    /\ buffered = 0
    /\ ftype = [encryptVersion |-> -1, compressed |-> FALSE]
    /\ header = [ckey |-> <<>>, salt |-> <<>>, size |-> <<>>]
    /\ passwordFinal = <<>>
    /\ block = <<>>
    /\ cbcIV = <<>>
    /\ plainFile = NoFile
    /\ tmpFile = NoFile
    /\ target = "plain"
    /\ wbuf = <<>>
    /\ bytesWritten = 0
    /\ last = NoLast
    /\ derr = "none"
    /\ decomp = [run |-> FALSE, ok |-> FALSE, n |-> 0]
    /\ err = "nil"
    /\ result = "running"
    /\ failures = 0
    /\ faults = {}

\* ------------------------------------------------------------------------
\* DecipherFile
\* ------------------------------------------------------------------------
inputs == <<param, password, truth>>

file == param.CipheredFile

\* where doDecipher returns to
AfterDecipher == IF ftype.encryptVersion = 0 THEN "ssl_after" ELSE "v2_after"

\* tmpFile.Close() and os.Remove(tmpFile.Name())
Removed(f) == [f EXCEPT !.exists = FALSE, !.open = FALSE, !.data = <<>>]

Created == [exists |-> TRUE, open |-> TRUE, data |-> <<>>, created |-> TRUE]

\* os.Open(param.CipheredFileName)
Open ==
    /\ pc = "open"
    /\ \E fail \in BOOLEAN :
        /\ faults' = IF fail THEN faults \cup {"open"} ELSE faults
        /\ IF fail
           THEN /\ result' = "Other"
                /\ pc' = "done"
                /\ UNCHANGED cipherOpen
           ELSE /\ cipherOpen' = TRUE
                /\ pc' = "check"
                /\ UNCHANGED result
    /\ UNCHANGED <<inputs, pos, buffered, ftype, header, passwordFinal, block, cbcIV,
                   plainFile, tmpFile, target, wbuf, bytesWritten, last, derr, decomp,
                   err, failures>>

\* d.ftype = d.checkCipheredFile(); the read of the option bytes is made, and
\* can fail, only after the version 2 magic
CheckFile ==
    /\ pc = "check"
    /\ \E readErr \in BOOLEAN :
       \E optErr \in {FALSE, ~readErr /\ Len(file) >= 8
                                /\ SubSeq(file, 1, 8) = QNAPFilePrefixV2Bytes} :
       \E k \in IF readErr THEN 0..Min(7, Len(file))
                ELSE IF optErr THEN 0..Min(1, Len(file) - 8)
                ELSE {0} :
        /\ faults' = faults \cup (IF readErr THEN {"magic"} ELSE {})
                            \cup (IF optErr THEN {"options"} ELSE {})
        /\ LET r == CheckCipheredFile(file, readErr, optErr, k)
           IN  /\ ftype' = r.ftype
               /\ pos' = r.pos
    /\ pc' = "create"
    /\ UNCHANGED <<inputs, cipherOpen, buffered, header, passwordFinal, block, cbcIV,
                   plainFile, tmpFile, target, wbuf, bytesWritten, last, derr, decomp,
                   err, result, failures>>

\* if d.ftype.encryptVersion >= 0 { d.plainFile, err = os.Create(...) }
CreatePlainFile ==
    /\ pc = "create"
    /\ IF ftype.encryptVersion >= 0
       THEN \E fail \in BOOLEAN :
               /\ faults' = IF fail THEN faults \cup {"create"} ELSE faults
               /\ IF fail
                  THEN /\ result' = "ErrDecipher"
                       /\ pc' = "return"
                       /\ UNCHANGED plainFile
                  ELSE /\ plainFile' = Created
                       /\ pc' = "switch"
                       /\ UNCHANGED result
       ELSE /\ UNCHANGED faults
            /\ pc' = "switch"
            /\ UNCHANGED <<plainFile, result>>
    /\ UNCHANGED <<inputs, cipherOpen, pos, buffered, ftype, header, passwordFinal, block,
                   cbcIV, tmpFile, target, wbuf, bytesWritten, last, derr, decomp, err,
                   failures>>

\* default: return NoCipherFile
RejectUnrecognized ==
    /\ pc = "switch"
    /\ ftype.encryptVersion \notin {0, 1, 2}
    /\ result' = "NoCipherFile"
    /\ pc' = "return"
    /\ UNCHANGED <<faults, inputs, cipherOpen, pos, buffered, ftype, header, passwordFinal,
                   block, cbcIV, plainFile, tmpFile, target, wbuf, bytesWritten, last,
                   derr, decomp, err, failures>>

\* case d.ftype.encryptVersion == 1: return NoCipherFile (not supported)
RejectV1 ==
    /\ pc = "switch"
    /\ ftype.encryptVersion = 1
    /\ result' = "NoCipherFile"
    /\ pc' = "return"
    /\ UNCHANGED <<faults, inputs, cipherOpen, pos, buffered, ftype, header, passwordFinal,
                   block, cbcIV, plainFile, tmpFile, target, wbuf, bytesWritten, last,
                   derr, decomp, err, failures>>

\* doDecipherOpenSSL up to the key and iv: Seek(8, 0), io.ReadFull(salt),
\* EVPBytesToKey with d.password
OpenSSLHeader ==
    /\ pc = "switch"
    /\ ftype.encryptVersion = 0
    /\ LET Derived(keyAndIV) ==
               /\ header' = [ckey |-> keyAndIV[1], salt |-> keyAndIV[2],
                             size |-> Uint64Bytes(0)]
               /\ pos' = 8 + SaltSize
               /\ pc' = "ssl_tmp"
               /\ UNCHANGED result
       IN
       \E seekFail \in BOOLEAN :
       \E readErr \in {FALSE, ~seekFail} :
        /\ faults' = faults \cup (IF seekFail THEN {"seek8"} ELSE {})
                            \cup (IF readErr THEN {"salt"} ELSE {})
        /\ IF seekFail
           THEN /\ result' = "Other"
                /\ pc' = "return"
                /\ UNCHANGED <<header, pos>>
           ELSE IF readErr
           THEN /\ result' = "ErrDecipher"
                /\ pc' = "return"
                /\ pos' = 8
                /\ UNCHANGED header
           ELSE IF Len(file) < 8 + SaltSize
           THEN /\ result' = "ErrDecipher"
                /\ pc' = "return"
                /\ pos' = Len(file)
                /\ UNCHANGED header
           ELSE Derived(EVPBytesToKey(AesKeyStrength \div 8, 16, SubSeq(file, 9, 8 + SaltSize),
                                      param.Password, ITERATIONS))
    /\ UNCHANGED <<inputs, cipherOpen, buffered, ftype, passwordFinal, block, cbcIV,
                   plainFile, tmpFile, target, wbuf, bytesWritten, last, derr, decomp,
                   err, failures>>

\* tmpFile, err := os.Create(d.plainFile.Name() + ".tmp") and the defer that
\* closes and removes it
OpenSSLCreateTmp ==
    /\ pc = "ssl_tmp"
    /\ \E fail \in BOOLEAN :
        /\ faults' = IF fail THEN faults \cup {"createTmp"} ELSE faults
        /\ IF fail
           THEN /\ result' = "ErrDecipher"
                /\ pc' = "return"
                /\ UNCHANGED <<tmpFile, target>>
           ELSE /\ tmpFile' = Created
                /\ target' = "tmp"
                /\ pc' = "decipher"
                /\ UNCHANGED result
    /\ UNCHANGED <<inputs, cipherOpen, pos, buffered, ftype, header, passwordFinal, block,
                   cbcIV, plainFile, wbuf, bytesWritten, last, derr, decomp, err,
                   failures>>

\* d.decipherV2Header(d.cipherFile, password): password is the package
\* variable of main.go, not d.password.  Seek(16, 0), the key stretch (a
\* panic when the variable is nil or empty), aes.NewCipher, io.ReadFull of 64
\* bytes (fewer than 64, or the read failing, is ErrDecipher), block.Decrypt.
V2Header ==
    /\ pc = "switch"
    /\ ftype.encryptVersion = 2
    /\ \E seekFail \in BOOLEAN :
       \E readErr \in {FALSE, ~seekFail /\ password.set /\ Len(password.val) > 0} :
       \E k \in IF readErr /\ Len(file) > 16 THEN {0, Min(63, Len(file) - 16)} ELSE {0} :
        /\ faults' = faults \cup (IF seekFail THEN {"seek16"} ELSE {})
                            \cup (IF readErr THEN {"header"} ELSE {})
        /\ IF seekFail
           THEN /\ result' = "ErrDecipher"
                /\ pc' = "return"
                /\ UNCHANGED <<header, pos, passwordFinal>>
           ELSE IF ~password.set \/ Len(password.val) = 0
           THEN /\ result' = "panic"
                /\ pc' = "return"
                /\ pos' = 16
                /\ UNCHANGED <<header, passwordFinal>>
           ELSE IF readErr
           THEN /\ passwordFinal' = StretchKey(password.val)
                /\ result' = "ErrDecipher"
                /\ pc' = "return"
                /\ pos' = 16 + k
                /\ UNCHANGED header
           ELSE IF Len(file) < 16 + 64
           THEN /\ passwordFinal' = StretchKey(password.val)
                /\ result' = "ErrDecipher"
                /\ pc' = "return"
                /\ pos' = IF Len(file) < 16 THEN 16 ELSE Len(file)
                /\ UNCHANGED header
           ELSE /\ passwordFinal' = StretchKey(password.val)
                /\ header' = V2HeaderOf(file, NewCipher(StretchKey(password.val)))
                /\ pos' = 16 + 64
                /\ pc' = "v2_writer"
                /\ UNCHANGED result
    /\ UNCHANGED <<inputs, cipherOpen, buffered, ftype, block, cbcIV, plainFile, tmpFile,
                   target, wbuf, bytesWritten, last, derr, decomp, err, failures>>

\* if d.ftype.compressed { tmpFile, err = os.Create(...) ; writer on tmpFile }
\* else { writer on d.plainFile }
V2CreateWriter ==
    /\ pc = "v2_writer"
    /\ IF ftype.compressed
       THEN \E fail \in BOOLEAN :
               /\ faults' = IF fail THEN faults \cup {"createTmp"} ELSE faults
               /\ IF fail
                  THEN /\ result' = "ErrDecipher"
                       /\ pc' = "return"
                       /\ UNCHANGED <<tmpFile, target>>
                  ELSE /\ tmpFile' = Created
                       /\ target' = "tmp"
                       /\ pc' = "decipher"
                       /\ UNCHANGED result
       ELSE /\ UNCHANGED faults
            /\ target' = "plain"
            /\ pc' = "decipher"
            /\ UNCHANGED <<tmpFile, result>>
    /\ UNCHANGED <<inputs, cipherOpen, pos, buffered, ftype, header, passwordFinal, block,
                   cbcIV, plainFile, wbuf, bytesWritten, last, derr, decomp, err,
                   failures>>

\* ------------------------------------------------------------------------
\* doDecipher
\* ------------------------------------------------------------------------
\* the content of the file the writer writes to
TargetData == IF target = "tmp" THEN tmpFile.data ELSE plainFile.data

\* the file the writer writes to holds data
WriteTarget(data) ==
    IF target = "tmp"
    THEN /\ tmpFile' = [tmpFile EXCEPT !.data = data]
         /\ UNCHANGED plainFile
    ELSE /\ plainFile' = [plainFile EXCEPT !.data = data]
         /\ UNCHANGED tmpFile

\* doDecipher before its loop: for version 2 Seek(HeaderV2Length, 0); then
\* aes.NewCipher(d.header.ckey) (the key has 32 bytes) and the CBC decrypter
\* with d.header.salt as iv
DoDecipherStart ==
    /\ pc = "decipher"
    /\ \E seekFail \in {FALSE, ftype.encryptVersion = 2} :
        /\ faults' = IF seekFail THEN faults \cup {"seek80"} ELSE faults
        /\ IF seekFail
           THEN /\ derr' = "Other"
                /\ pc' = AfterDecipher
                /\ UNCHANGED <<pos, block, cbcIV>>
           ELSE /\ pos' = IF ftype.encryptVersion = 2 THEN HeaderV2Length ELSE pos
                /\ block' = NewCipher(header.ckey)
                /\ cbcIV' = header.salt
                /\ pc' = "loop"
                /\ UNCHANGED derr
    /\ UNCHANGED <<inputs, cipherOpen, buffered, ftype, header, passwordFinal, plainFile,
                   tmpFile, target, wbuf, bytesWritten, last, decomp, err, result,
                   failures>>

\* one iteration of the loop of doDecipher.  reader.Read(encrypted): when
\* the reader's buffer is empty it is filled by one read of the file, of
\* BufSize bytes or of what is left, which can fail (readErr) and gives an
\* error at the end of the file; the call gives the next ChunkSize bytes of
\* the buffer, or the n < ChunkSize left.  A full chunk is decrypted and
\* written; the final partial chunk is trimmed and written and the writer
\* flushed.  A write into the full buffer flushes it; that flush failing
\* (writeErr) is ErrDecipher, while the error of the last flush (flushErr) is
\* dropped.
DoDecipherChunk ==
    /\ pc = "loop"
    /\ LET fill      == buffered = 0
           avail     == IF fill THEN Min(BufSize, Len(file) - pos) ELSE buffered
           start     == IF fill THEN pos ELSE pos - buffered
           n         == Min(ChunkSize, avail)
           encrypted == SubSeq(file, start + 1, start + n)
           \* after writer.Write(p) with the outcome w
           Written(decrypted, p, w) ==
               /\ pos' = start + avail
               /\ buffered' = avail - n
               /\ cbcIV' = CBCNextIV(cbcIV, encrypted)
               /\ last' = IF n < ChunkSize
                          THEN [seen |-> TRUE, n |-> n, p |-> decrypted[n],
                                ok |-> TRUE, decrypted |-> decrypted,
                                emitted |-> p]
                          ELSE last
               /\ IF w.err
                  THEN /\ faults' = faults \cup {"write"}
                       /\ derr' = "ErrDecipher"
                       /\ pc' = AfterDecipher
                       /\ wbuf' = w.buf
                       /\ WriteTarget(w.data)
                       /\ UNCHANGED bytesWritten
                  ELSE IF n < ChunkSize
                  THEN \E flushErr \in {FALSE, Len(w.buf) > 0} :
                       \E fk \in IF flushErr THEN Partial(Len(w.buf)) ELSE {0} :
                       LET f == WriterFlush(w.data, w.buf, flushErr, fk)
                       IN  /\ faults' = IF flushErr THEN faults \cup {"flush"}
                                        ELSE faults
                           /\ derr' = "nil"
                           /\ pc' = AfterDecipher
                           /\ bytesWritten' = bytesWritten + Len(p)
                           /\ wbuf' = f.buf
                           /\ WriteTarget(f.data)
                  ELSE /\ UNCHANGED <<faults, derr, pc>>
                       /\ bytesWritten' = bytesWritten + Len(p)
                       /\ wbuf' = w.buf
                       /\ WriteTarget(w.data)
           \* writer.Write(p)
           Write(decrypted, p) ==
               \E writeErr \in {FALSE, Len(p) > BufSize - Len(wbuf)} :
               \E wk \in IF writeErr THEN Partial(BufSize) ELSE {0} :
                   Written(decrypted, p, WriterWrite(TargetData, wbuf, p, writeErr, wk))
           \* after CryptBlocks; t is the result of PKCS5Trimming, looked at
           \* for the final chunk only
           Chunk(decrypted, t) ==
               IF n < ChunkSize /\ ~t.ok
               THEN /\ UNCHANGED faults
                    /\ derr' = "ErrDecipher"
                    /\ pc' = AfterDecipher
                    /\ pos' = start + avail
                    /\ buffered' = avail - n
                    /\ cbcIV' = CBCNextIV(cbcIV, encrypted)
                    /\ last' = [seen |-> TRUE, n |-> n, p |-> decrypted[n], ok |-> FALSE,
                                decrypted |-> decrypted, emitted |-> <<>>]
                    /\ UNCHANGED <<plainFile, tmpFile, wbuf, bytesWritten>>
               ELSE Write(decrypted, IF n < ChunkSize THEN t.out ELSE decrypted)
           Decrypted(decrypted) == Chunk(decrypted, PKCS5Trimming(decrypted, BlockSize))
       IN  \E readErr \in {FALSE, fill} :
           IF readErr \/ avail = 0
           THEN /\ faults' = IF readErr THEN faults \cup {"read"} ELSE faults
                /\ derr' = "ErrDecipher"
                /\ pc' = AfterDecipher
                /\ UNCHANGED <<pos, buffered, cbcIV, plainFile, tmpFile, wbuf,
                               bytesWritten, last>>
           ELSE IF n < ChunkSize /\ n % 16 # 0
           THEN /\ UNCHANGED faults
                /\ derr' = "ErrDecipher"
                /\ pc' = AfterDecipher
                /\ pos' = start + avail
                /\ buffered' = avail - n
                /\ last' = [seen |-> TRUE, n |-> n, p |-> -1, ok |-> FALSE,
                            decrypted |-> <<>>, emitted |-> <<>>]
                /\ UNCHANGED <<cbcIV, plainFile, tmpFile, wbuf, bytesWritten>>
           ELSE Decrypted(CryptBlocks(block, cbcIV, encrypted))
    /\ UNCHANGED <<inputs, cipherOpen, ftype, header, passwordFinal, block, target,
                   decomp, err, result, failures>>

\* ------------------------------------------------------------------------
\* doDecipherOpenSSL after doDecipher
\* ------------------------------------------------------------------------
\* _, err = d.doDecipher(...); if err != nil { return 0, err }
OpenSSLAfterDecipher ==
    /\ pc = "ssl_after"
    /\ IF derr # "nil"
       THEN /\ result' = derr
            /\ tmpFile' = Removed(tmpFile)
            /\ pc' = "return"
       ELSE /\ pc' = "ssl_seek"
            /\ UNCHANGED <<result, tmpFile>>
    /\ UNCHANGED <<faults, inputs, cipherOpen, pos, buffered, ftype, header, passwordFinal,
                   block, cbcIV, plainFile, target, wbuf, bytesWritten, last, derr,
                   decomp, err, failures>>

\* if _, err = tmpFile.Seek(0, 0); err != nil { return 0, fmt.Errorf("%w", err) }
OpenSSLSeekTmp ==
    /\ pc = "ssl_seek"
    /\ \E fail \in BOOLEAN :
        /\ faults' = IF fail THEN faults \cup {"seekTmp"} ELSE faults
        /\ IF fail
           THEN /\ result' = "Other"
                /\ tmpFile' = Removed(tmpFile)
                /\ pc' = "return"
           ELSE /\ pc' = "ssl_decompress"
                /\ UNCHANGED <<result, tmpFile>>
    /\ UNCHANGED <<inputs, cipherOpen, pos, buffered, ftype, header, passwordFinal, block,
                   cbcIV, plainFile, target, wbuf, bytesWritten, last, derr, decomp, err,
                   failures>>

\* io.Copy(bufio.NewWriter(d.plainFile), bzip2.NewReader(tmpFile)), then the
\* deferred close and remove of the temporary file.  The empty writer hands
\* the copy to the file, so that the bytes read are written to the file
\* unbuffered; a write failing (writeErr) ends the copy with the k bytes
\* written so far and its error.
OpenSSLDecompress ==
    /\ pc = "ssl_decompress"
    /\ LET Copy(r) ==
               \E writeErr \in {FALSE, Len(r.out) > 0} :
               \E k \in IF writeErr THEN Partial(Len(r.out)) ELSE {Len(r.out)} :
                /\ faults' = IF writeErr THEN faults \cup {"copy"} ELSE faults
                /\ plainFile' = [plainFile EXCEPT !.data = Take(r.out, k)]
                /\ bytesWritten' = k
                /\ result' = IF r.ok /\ ~writeErr THEN "nil" ELSE "ErrDecipher"
                /\ decomp' = [run |-> TRUE, ok |-> r.ok /\ ~writeErr, n |-> k]
       IN  Copy(Bunzip2(tmpFile.data))
    /\ tmpFile' = Removed(tmpFile)
    /\ pc' = "return"
    /\ UNCHANGED <<inputs, cipherOpen, pos, buffered, ftype, header, passwordFinal, block,
                   cbcIV, target, wbuf, last, derr, err, failures>>

\* ------------------------------------------------------------------------
\* doDecipherV2 after doDecipher
\* ------------------------------------------------------------------------
\* bytesWritten, err := d.doDecipher(...); if d.ftype.compressed { ... }
V2AfterDecipher ==
    /\ pc = "v2_after"
    /\ err' = derr
    /\ pc' = IF ftype.compressed THEN "v2_seek" ELSE "v2_check"
    /\ UNCHANGED <<faults, inputs, cipherOpen, pos, buffered, ftype, header, passwordFinal,
                   block, cbcIV, plainFile, tmpFile, target, wbuf, bytesWritten, last,
                   derr, decomp, result, failures>>

\* if _, err = tmpFile.Seek(0, 0); err != nil { return 0, fmt.Errorf("%w", err) }
\* the assignment replaces the error of doDecipher
V2SeekTmp ==
    /\ pc = "v2_seek"
    /\ \E fail \in BOOLEAN :
        /\ faults' = IF fail THEN faults \cup {"seekTmp"} ELSE faults
        /\ IF fail
           THEN /\ err' = "Other"
                /\ result' = "Other"
                /\ pc' = "return"
           ELSE /\ err' = "nil"
                /\ pc' = "v2_decompress"
                /\ UNCHANGED result
    /\ UNCHANGED <<inputs, cipherOpen, pos, buffered, ftype, header, passwordFinal, block,
                   cbcIV, plainFile, tmpFile, target, wbuf, bytesWritten, last, derr,
                   decomp, failures>>

\* V2Decompress without bytesWritten = uint64(out): the size check then sees
\* the byte count of doDecipher
V2DecompressKeepCount ==
    /\ pc = "v2_decompress"
    /\ LET Copy(r) ==
               \E writeErr \in {FALSE, Len(r.out) > 0} :
               \E k \in IF writeErr THEN Partial(Len(r.out)) ELSE {Len(r.out)} :
                /\ faults' = IF writeErr THEN faults \cup {"copy"} ELSE faults
                /\ plainFile' = [plainFile EXCEPT !.data = Take(r.out, k)]
                /\ UNCHANGED bytesWritten
                /\ IF r.ok /\ ~writeErr
                   THEN /\ pc' = "v2_check"
                        /\ UNCHANGED result
                   ELSE /\ result' = "ErrDecipher"
                        /\ pc' = "return"
                /\ decomp' = [run |-> TRUE, ok |-> r.ok /\ ~writeErr, n |-> k]
       IN  Copy(Inflate(tmpFile.data))
    /\ tmpFile' = Removed(tmpFile)
    /\ UNCHANGED <<inputs, cipherOpen, pos, buffered, ftype, header, passwordFinal, block,
                   cbcIV, target, wbuf, last, derr, err, failures>>

\* out, err := io.Copy(bufio.NewWriter(d.plainFile), flate.NewReader(tmpFile));
\* bytesWritten = uint64(out); tmpFile.Close(); os.Remove(tmpFile.Name());
\* this err is a new variable of the block.  The copy writes to the file as
\* in OpenSSLDecompress.
V2Decompress ==
    /\ pc = "v2_decompress"
    /\ LET Copy(r) ==
               \E writeErr \in {FALSE, Len(r.out) > 0} :
               \E k \in IF writeErr THEN Partial(Len(r.out)) ELSE {Len(r.out)} :
                /\ faults' = IF writeErr THEN faults \cup {"copy"} ELSE faults
                /\ plainFile' = [plainFile EXCEPT !.data = Take(r.out, k)]
                /\ bytesWritten' = k
                /\ IF r.ok /\ ~writeErr
                   THEN /\ pc' = "v2_check"
                        /\ UNCHANGED result
                   ELSE /\ result' = "ErrDecipher"
                        /\ pc' = "return"
                /\ decomp' = [run |-> TRUE, ok |-> r.ok /\ ~writeErr, n |-> k]
       IN  Copy(Inflate(tmpFile.data))
    /\ tmpFile' = Removed(tmpFile)
    /\ UNCHANGED <<inputs, cipherOpen, pos, buffered, ftype, header, passwordFinal, block,
                   cbcIV, target, wbuf, last, derr, err, failures>>

\* V2Check without the comparison of bytesWritten with d.header.size
V2CheckNoSize ==
    /\ pc = "v2_check"
    /\ result' = IF err # "nil" THEN err ELSE "nil"
    /\ pc' = "return"
    /\ UNCHANGED <<faults, inputs, cipherOpen, pos, buffered, ftype, header, passwordFinal,
                   block, cbcIV, plainFile, tmpFile, target, wbuf, bytesWritten, last,
                   derr, decomp, err, failures>>

\* if err != nil { return 0, err }; if bytesWritten != d.header.size
\* { return bytesWritten, ErrDecipher }; return bytesWritten, nil
V2Check ==
    /\ pc = "v2_check"
    /\ result' = IF err # "nil" THEN err
                 ELSE IF Uint64Bytes(bytesWritten) # header.size THEN "ErrDecipher"
                 ELSE "nil"
    /\ pc' = "return"
    /\ UNCHANGED <<faults, inputs, cipherOpen, pos, buffered, ftype, header, passwordFinal,
                   block, cbcIV, plainFile, tmpFile, target, wbuf, bytesWritten, last,
                   derr, decomp, err, failures>>

\* the deferred d.cipherFile.Close() and d.plainFile.Close()
Return ==
    /\ pc = "return"
    /\ cipherOpen' = FALSE
    /\ plainFile' = [plainFile EXCEPT !.open = FALSE]
    /\ pc' = IF result = "panic" THEN "crashed" ELSE "done"
    /\ UNCHANGED <<faults, inputs, pos, buffered, ftype, header, passwordFinal, block,
                   cbcIV, tmpFile, target, wbuf, bytesWritten, last, derr, decomp, err,
                   result, failures>>

\* processFileOrDirectory: if err != nil { if errors.Is(err, ErrDecipher) { failures++ } }
Count ==
    /\ pc = "done"
    /\ failures' = IF result = "ErrDecipher" THEN failures + 1 ELSE failures
    /\ pc' = "counted"
    /\ UNCHANGED <<faults, inputs, cipherOpen, pos, buffered, ftype, header, passwordFinal,
                   block, cbcIV, plainFile, tmpFile, target, wbuf, bytesWritten, last,
                   derr, decomp, err, result>>

Next ==
    \/ Open
    \/ CheckFile
    \/ CreatePlainFile
    \/ RejectUnrecognized
    \/ RejectV1
    \/ OpenSSLHeader
    \/ OpenSSLCreateTmp
    \/ V2Header
    \/ V2CreateWriter
    \/ DoDecipherStart
    \/ DoDecipherChunk
    \/ OpenSSLAfterDecipher
    \/ OpenSSLSeekTmp
    \/ OpenSSLDecompress
    \/ V2AfterDecipher
    \/ V2SeekTmp
    \/ V2Decompress
    \/ V2Check
    \/ Return
    \/ Count

Spec == Init /\ [][Next]_vars

\* ------------------------------------------------------------------------
\* Properties
\* ------------------------------------------------------------------------
\* DecipherFile has returned to its caller
Returned == pc \in {"done", "counted"}

\* the container format of a file, from its leading bytes
Classify(f) ==
    IF Len(f) >= 8 /\ SubSeq(f, 1, 8) = OpenSSLPrefix THEN "GenericSalted"
    ELSE IF Len(f) >= 8 /\ SubSeq(f, 1, 8) = QNAPFilePrefixV1Bytes THEN "LegacyV1"
    ELSE IF Len(f) >= 10 /\ SubSeq(f, 1, 8) = QNAPFilePrefixV2Bytes
    THEN IF f[10] = 1 THEN "VersionedV2Compressed" ELSE "VersionedV2"
    ELSE "Unrecognized"

\* the container format a fileType stands for
FormatOf(t) ==
    IF t.encryptVersion = 0 THEN "GenericSalted"
    ELSE IF t.encryptVersion = 1 THEN "LegacyV1"
    ELSE IF t.encryptVersion = 2
    THEN IF t.compressed THEN "VersionedV2Compressed" ELSE "VersionedV2"
    ELSE "Unrecognized"

\* the format was detected: the input file was opened and checked
Detected == "open" \notin faults /\ pc \notin {"open", "check"}

\* C1: whenever DecipherFile has created the temporary file, the file is
\* closed and removed once DecipherFile has returned, on every exit path.
C1_TmpRemovedOnReturn ==
    (pc \in {"done", "counted", "crashed"} /\ tmpFile.created)
        => (~tmpFile.exists /\ ~tmpFile.open)

\* C2: the output file is created only for a format detected as GenericSalted
\* or VersionedV2, and only those formats go past detection to the header
\* and key derivation.
C2_OutputOnlyWhenDecipherable ==
    /\ plainFile.created => ftype.encryptVersion \in {0, 2}
    /\ pc \notin {"open", "check", "create", "switch", "return", "done", "counted",
                  "crashed"}
           => ftype.encryptVersion \in {0, 2}

\* C3: when the body is the chained-block encryption, under the key and iv
\* the run derived, of a plaintext P followed by 1..16 bytes of padding, and
\* no call was made to fail, doDecipher returns no error, has emitted exactly
\* P and reports Len(P) bytes.
C3_RoundTrip ==
    (/\ pc \in {"ssl_after", "v2_after"}
     /\ truth.made \in {"openssl", "v2"}
     /\ truth.mode = "pkcs"
     /\ header.ckey = truth.ckey
     /\ header.salt = truth.civ
     /\ faults = {})
        => (/\ derr = "nil"
            /\ bytesWritten = Len(truth.plain)
            /\ TargetData = truth.plain)

\* C4: every error DecipherFile returns is NoCipherFile or ErrDecipher; it is
\* NoCipherFile exactly when the detected format is Unrecognized or LegacyV1;
\* and the caller's failure counter counts every other error.
C4_TwoErrorKinds ==
    (Returned /\ result # "nil")
        => (/\ result \in {"NoCipherFile", "ErrDecipher"}
            /\ (result = "NoCipherFile")
                   <=> (Detected /\ FormatOf(ftype) \in {"Unrecognized", "LegacyV1"})
            /\ (pc = "counted" /\ result # "NoCipherFile") => failures = 1)

\* C5: the detected format is a function of the leading bytes of the file (a
\* failed read of the magic or of the option bytes gives Unrecognized), and
\* an Unrecognized input makes DecipherFile return NoCipherFile whatever the
\* password.
C5_DetectionTotal ==
    Detected
        => (/\ FormatOf(ftype) = IF "magic" \in faults \/ "options" \in faults
                                 THEN "Unrecognized"
                                 ELSE Classify(file)
            /\ (Returned /\ FormatOf(ftype) = "Unrecognized") => result = "NoCipherFile")

\* a shortened versioned-v2 magic was rejected as not a ciphered file
C5_Witness ==
    /\ pc = "counted"
    /\ result = "NoCipherFile"
    /\ Len(file) = 9
    /\ SubSeq(file, 1, 8) = QNAPFilePrefixV2Bytes
    /\ faults = {}

\* C6: a final partial chunk of n decrypted bytes with last byte p is
\* accepted if and only if n is a multiple of 16 and 1 <= p <= 16 and p < n;
\* when accepted exactly its first n - p bytes are emitted (and doDecipher
\* succeeds unless the write fails), and otherwise doDecipher fails with
\* ErrDecipher and emits none of it.
C6_FinalChunkAcceptance ==
    last.seen
        => (/\ last.ok <=> (last.n % 16 = 0 /\ last.p >= 1 /\ last.p <= 16
                            /\ last.p < last.n)
            /\ last.ok => (/\ derr = IF "write" \in faults THEN "ErrDecipher" ELSE "nil"
                           /\ last.emitted = SubSeq(last.decrypted, 1, last.n - last.p))
            /\ ~last.ok => (derr = "ErrDecipher" /\ last.emitted = <<>>))

\* C7: for a VersionedV2 input flagged compressed, DecipherFile succeeds only
\* if the decompression ran without error and produced as many bytes as the
\* size field of the decrypted header; when the decompression succeeds with
\* another count, the result is ErrDecipher.
C7_CompressedSizeChecked ==
    (Returned /\ ftype.encryptVersion = 2 /\ ftype.compressed)
        => (/\ result = "nil"
                => (decomp.run /\ decomp.ok /\ Uint64Bytes(decomp.n) = header.size)
            /\ (decomp.run /\ decomp.ok /\ Uint64Bytes(decomp.n) # header.size)
                => result = "ErrDecipher")

\* a decompression of fixed Huffman codes that succeeded with a count other
\* than the size field
C7_Witness ==
    /\ pc = "counted"
    /\ ftype.encryptVersion = 2
    /\ ftype.compressed
    /\ truth.plain = DeflateFixed
    /\ decomp.run
    /\ decomp.ok
    /\ decomp.n = 3
    /\ header.size = Uint64Bytes(4)
    /\ result = "ErrDecipher"

\* byte i of the stretched key is Password[i mod len(Password)]
ExpectedStretch(pw) == [i \in 1..32 |-> pw[((i - 1) % Len(pw)) + 1]]

\* C8: the outcome depends on the request only: the stretched key of the
\* VersionedV2 header is built from the Password of the request, and the
\* value of the package variable cannot make the run panic.
C8_KeyFromRequest ==
    /\ passwordFinal # <<>> => passwordFinal = ExpectedStretch(param.Password)
    /\ result # "panic"

\* C9: the decompression runs only after doDecipher returned no error, and
\* a run whose doDecipher failed does not end in success and returns the
\* error of doDecipher.
C9_StageOrdering ==
    /\ decomp.run => derr = "nil"
    /\ (Returned /\ derr \notin {"none", "nil"}) => result = derr

\* C9, its last part alone: a run whose doDecipher failed does not end in
\* success.
C9_DoneAfterFailedDecrypt ==
    (Returned /\ derr \notin {"none", "nil"}) => result # "nil"

\* C10 as claimed: for a VersionedV2 input not flagged compressed no
\* temporary file is ever created and DecipherFile succeeds exactly when
\* doDecipher does, whatever the size field.
C10_NoSizeCheck ==
    (ftype.encryptVersion = 2 /\ ~ftype.compressed)
        => (/\ ~tmpFile.created
            /\ Returned => (result = "nil" <=> derr = "nil"))

\* C10 as amended: for a VersionedV2 input not flagged compressed no
\* temporary file is ever created, no decompression is run and doDecipher
\* writes to the output file, and DecipherFile succeeds exactly when
\* doDecipher returns no error and the byte count it reports equals the size
\* field of the header; a run of doDecipher without error whose count differs
\* ends in ErrDecipher.
C10_DirectWithSizeCheck ==
    (ftype.encryptVersion = 2 /\ ~ftype.compressed)
        => (/\ ~tmpFile.created
            /\ ~decomp.run
            /\ target = "plain"
            /\ Returned
                   => (/\ result = "nil"
                          <=> (derr = "nil" /\ Uint64Bytes(bytesWritten) = header.size)
                       /\ (derr = "nil" /\ Uint64Bytes(bytesWritten) # header.size)
                          => result = "ErrDecipher"))

\* an uncompressed VersionedV2 file deciphered without error and refused for
\* its size field
C10_Witness ==
    /\ pc = "counted"
    /\ ftype.encryptVersion = 2
    /\ ~ftype.compressed
    /\ derr = "nil"
    /\ bytesWritten = 15
    /\ plainFile.data = Pattern(15)
    /\ header.size = Uint64Bytes(16)
    /\ result = "ErrDecipher"

====
